---- MODULE Spec2Model ----
(***************************************************************************)
(* Fraud decision core: the decision-engine's POST /v1/score handler with  *)
(* its idempotency store, event / decision / audit tables, the             *)
(* combination policy, the rules-service evaluation response and the       *)
(* HMAC-signed audit log.                                                   *)
(*                                                                         *)
(* Conventions.                                                            *)
(*  - Scores are hundredths: 0..100 stands for 0.00..1.00, NoScore for     *)
(*    Python's None.                                                       *)
(*  - A decision id "dec_<12 hex>" is modelled by the number of the        *)
(*    request that generated it (uuid4 values are taken to be distinct);   *)
(*    NoDecision stands for None.                                          *)
(*  - Each await of the handler is a step of its request; the outcome of   *)
(*    an I/O call (Redis, PostgreSQL, Kafka, HTTP) is chosen with \E.      *)
(***************************************************************************)
EXTENDS Integers, Sequences, FiniteSets, TLC

VARIABLES
    pc,              \* position of each request's handler
    existing,        \* existing_decision_id local of score_transaction
    cas,             \* how check_and_set ended for the request
    sequential,      \* the request arrived after the previous one had returned
    orch,            \* locals of the handler and of orchestrate: velocity,
                     \* ML result, rules response, result, latency
    resp,            \* the ScoreResponse returned, NoResponse before that
    idem,            \* Redis: the value of idem:<idem_key> (NoDecision: no key)
    events,          \* table events
    decisions,       \* table decisions
    sca_challenges,  \* table sca_challenges
    velocity,        \* Redis: the sorted sets velocity:<user_id>:<window>
    rules_v2,        \* rules service: table rules_v2
    app_state,       \* rules service: rules_cache and cache_timestamp
    rules_call,      \* rules service: the last get_rules / reload and its result
    recorded,        \* the record_transaction calls completed so far: time, amount
    decision_events, \* Kafka topic decision_events
    case_events,     \* Kafka topic case_events
    audit_logs,      \* table audit_logs
    now,             \* wall clock (datetime.utcnow() / NOW()); in a timed
                     \* run a reading by the handler takes one unit of time
    env,             \* what the collaborators do in this run (fixed by Init)
    last_sql,        \* the last statement run against audit_logs and its error
    polIn,           \* arguments of one call of a function checked on its own
                     \* (_make_decision, sign_audit_log / verify_audit_log)
    polOut           \* its result

vars == <<pc, existing, cas, sequential, orch, resp, idem, events, decisions,
          sca_challenges, velocity, rules_v2, app_state, rules_call, recorded, decision_events, case_events, audit_logs, now,
          env, last_sql, polIn, polOut>>

(***************************************************************************)
(* Bounds                                                                  *)
(***************************************************************************)
NumRequests == 2
MaxTime == 1
MaxAuditRows == 2

Requests == 1..NumRequests

(***************************************************************************)
(* Program constants                                                       *)
(***************************************************************************)
THRESHOLD_LOW_RISK == 50
THRESHOLD_HIGH_RISK == 70
SCA_MIN_SCORE == 30
NoScore == -1
NoDecision == 0

DEFAULT_TENANT_ID == "default"
KAFKA_ENABLE == TRUE
TOTAL_TIMEOUT_MS == 100
HMAC_SECRET == "safeguard-audit-secret-key-change-in-prod"

(***************************************************************************)
(* Helpers                                                                 *)
(***************************************************************************)
Min(a, b) == IF a <= b THEN a ELSE b

\* Python's s[:n]
Take(s, n) == SubSeq(s, 1, Min(n, Len(s)))

(***************************************************************************)
(* Requests                                                                *)
(***************************************************************************)
\* The model follows the submissions of one event: every request carries the
\* same ScoreRequest. Requests for other events share no idempotency key,
\* event row or decision row with it.
EVENT_ID == "evt_1"

ScoreRequest ==
    [event_id |-> EVENT_ID,
     tenant_id |-> DEFAULT_TENANT_ID,
     user_id |-> "user_1",
     amount |-> env.amount,
     has_initial_2fa |-> env.has_initial_2fa]

\* idem_key = f"{request.tenant_id}:{request.event_id}"
idem_key(request) == <<request.tenant_id, request.event_id>>

\* decision_id = f"dec_{uuid.uuid4().hex[:12]}"
new_decision_id(r) == r

(***************************************************************************)
(* Combination policy                                                      *)
(***************************************************************************)
\* One entry of the reasons list; the f-string arguments are kept as fields.
Reason(msg, score, names) == [msg |-> msg, score |-> score, names |-> names]

Decision(decision, reasons, requires_2fa) ==
    [decision |-> decision, reasons |-> reasons, requires_2fa |-> requires_2fa]

\* reasons of the critical branch
critical_reasons(rule_hits) ==
    <<Reason("Critical security rule triggered", NoScore, <<>>)>>
    \o (IF rule_hits # <<>>
        THEN <<Reason("Rules", NoScore, Take(rule_hits, 3))>>
        ELSE <<>>)

\* reasons of the high risk branch
high_risk_reasons(score, rule_hits, top_features) ==
    <<Reason("High risk score", score, <<>>)>>
    \o (IF top_features # <<>>
        THEN <<Reason("Risk factors", NoScore, Take(top_features, 3))>>
        ELSE <<>>)
    \o (IF rule_hits # <<>>
        THEN <<Reason("Rules triggered", NoScore, Take(rule_hits, 3))>>
        ELSE <<>>)

\* reasons of the medium risk branch
medium_risk_reasons(score, has_initial_2fa) ==
    <<Reason("Medium risk score", score, <<>>),
      IF has_initial_2fa
      THEN Reason("2FA already validated", NoScore, <<>>)
      ELSE Reason("2FA required for verification", NoScore, <<>>)>>

\* reasons of the low risk branch
low_risk_reasons(score, rule_hits) ==
    <<Reason("Low risk score", score, <<>>),
      IF rule_hits # <<>>
      THEN Reason("Minor rules triggered", NoScore, Take(rule_hits, 2))
      ELSE Reason("No security rules triggered", NoScore, <<>>)>>

no_score_reasons == <<Reason("Unable to compute risk score", NoScore, <<>>)>>

\* _make_decision with a high score denied, as the decision-logic unit test
\* has it.
_make_decision_high_denies(score, rule_hits, is_critical, has_initial_2fa, top_features) ==
    IF is_critical THEN
        Decision("DENY", critical_reasons(rule_hits), FALSE)
    ELSE IF score = NoScore THEN
        Decision("CHALLENGE", no_score_reasons, TRUE)
    ELSE IF score > THRESHOLD_HIGH_RISK THEN
        Decision("DENY", high_risk_reasons(score, rule_hits, top_features), FALSE)
    ELSE IF score >= THRESHOLD_LOW_RISK THEN
        Decision(IF has_initial_2fa THEN "ALLOW" ELSE "CHALLENGE",
                 medium_risk_reasons(score, has_initial_2fa), ~has_initial_2fa)
    ELSE
        Decision("ALLOW", low_risk_reasons(score, rule_hits), FALSE)

\* _make_decision with the HIGH threshold itself in the high band.
_make_decision_high_inclusive(score, rule_hits, is_critical, has_initial_2fa, top_features) ==
    IF is_critical THEN
        Decision("DENY", critical_reasons(rule_hits), FALSE)
    ELSE IF score = NoScore THEN
        Decision("CHALLENGE", no_score_reasons, TRUE)
    ELSE IF score >= THRESHOLD_HIGH_RISK THEN
        Decision("CHALLENGE", high_risk_reasons(score, rule_hits, top_features), TRUE)
    ELSE IF score >= THRESHOLD_LOW_RISK THEN
        Decision(IF has_initial_2fa THEN "ALLOW" ELSE "CHALLENGE",
                 medium_risk_reasons(score, has_initial_2fa), ~has_initial_2fa)
    ELSE
        Decision("ALLOW", low_risk_reasons(score, rule_hits), FALSE)

_make_decision(score, rule_hits, is_critical, has_initial_2fa, top_features) ==
    IF is_critical THEN
        Decision("DENY", critical_reasons(rule_hits), FALSE)
    ELSE IF score = NoScore THEN
        Decision("CHALLENGE", no_score_reasons, TRUE)
    ELSE IF score > THRESHOLD_HIGH_RISK THEN
        Decision("CHALLENGE", high_risk_reasons(score, rule_hits, top_features), TRUE)
    ELSE IF score >= THRESHOLD_LOW_RISK THEN
        IF has_initial_2fa
        THEN Decision("ALLOW", medium_risk_reasons(score, has_initial_2fa), FALSE)
        ELSE Decision("CHALLENGE", medium_risk_reasons(score, has_initial_2fa), TRUE)
    ELSE
        Decision("ALLOW", low_risk_reasons(score, rule_hits), FALSE)

(***************************************************************************)
(* Model serving call                                                      *)
(***************************************************************************)
\* What POST {MODEL_SERVING_URL}/predict does within its timeout: ok = FALSE
\* is a timeout, a transport error or a non-2xx status.
MLCall(ok, score, top_features) ==
    [ok |-> ok, score |-> score, top_features |-> top_features]

MLFailure == MLCall(FALSE, NoScore, <<>>)

\* call_model_serving with a failed call scored 0.
call_model_serving_zero_on_failure(http) ==
    IF http.ok
    THEN [score |-> http.score, top_features |-> http.top_features]
    ELSE [score |-> 0, top_features |-> <<>>]

call_model_serving(http) ==
    IF http.ok
    THEN [score |-> http.score, top_features |-> http.top_features]
    ELSE [score |-> NoScore, top_features |-> <<>>]

(***************************************************************************)
(* Rules service: POST /evaluate                                           *)
(***************************************************************************)
Rule(id, name, action, priority) ==
    [rule_id |-> id, rule_name |-> name, action |-> action, priority |-> priority]

\* evaluate_transaction in which an allow-list match short-circuits whatever
\* the deny lists say.
evaluate_transaction_allow_wins(check_lists, deny_matches, allow_matches, matched) ==
    LET denied  == IF check_lists THEN deny_matches ELSE <<>>
        allowed == IF check_lists THEN allow_matches ELSE <<>>
    IN  IF allowed # <<>> THEN
            [should_deny |-> FALSE,
             should_review |-> FALSE,
             matched_rules |-> <<>>,
             list_matches |-> denied \o allowed,
             evaluated |-> FALSE]
        ELSE
            [should_deny |-> (denied # <<>>)
                             \/ (\E i \in 1..Len(matched) : matched[i].action = "deny"),
             should_review |-> \E i \in 1..Len(matched) : matched[i].action = "review",
             matched_rules |-> matched,
             list_matches |-> denied \o allowed,
             evaluated |-> TRUE]

\* evaluate_transaction in which a deny-list match is only reported.
evaluate_transaction_lists_not_critical(check_lists, deny_matches, allow_matches, matched) ==
    LET denied  == IF check_lists THEN deny_matches ELSE <<>>
        allowed == IF check_lists THEN allow_matches ELSE <<>>
    IN  IF allowed # <<>> /\ denied = <<>> THEN
            [should_deny |-> FALSE,
             should_review |-> FALSE,
             matched_rules |-> <<>>,
             list_matches |-> allowed,
             evaluated |-> FALSE]
        ELSE
            [should_deny |-> \E i \in 1..Len(matched) : matched[i].action = "deny",
             should_review |-> \E i \in 1..Len(matched) : matched[i].action = "review",
             matched_rules |-> matched,
             list_matches |-> denied \o allowed,
             evaluated |-> TRUE]

\* The response of evaluate_transaction. deny_matches / allow_matches are
\* what check_all_lists returned (the matching context fields), matched is
\* what evaluate_rules returns for the request's context.
evaluate_transaction(check_lists, deny_matches, allow_matches, matched) ==
    LET denied  == IF check_lists THEN deny_matches ELSE <<>>
        allowed == IF check_lists THEN allow_matches ELSE <<>>
    IN  IF allowed # <<>> /\ denied = <<>> THEN
            [should_deny |-> FALSE,
             should_review |-> FALSE,
             matched_rules |-> <<>>,
             list_matches |-> allowed,
             evaluated |-> FALSE]
        ELSE
            [should_deny |-> (denied # <<>>)
                             \/ (\E i \in 1..Len(matched) : matched[i].action = "deny"),
             should_review |-> \E i \in 1..Len(matched) : matched[i].action = "review",
             matched_rules |-> matched,
             list_matches |-> denied \o allowed,
             evaluated |-> TRUE]

\* What the HTTP call to the rules service yields within its timeout.
RulesCall(ok, data) == [ok |-> ok, data |-> data]

RulesFailure == RulesCall(FALSE, evaluate_transaction(FALSE, <<>>, <<>>, <<>>))

\* call_rules_service that drops should_deny.
call_rules_service_never_critical(http) ==
    IF http.ok
    THEN [rule_hits |-> [i \in 1..Len(http.data.matched_rules) |->
                            http.data.matched_rules[i].rule_name],
          is_critical |-> FALSE]
    ELSE [rule_hits |-> <<>>, is_critical |-> FALSE]

call_rules_service(http) ==
    IF http.ok
    THEN [rule_hits |-> [i \in 1..Len(http.data.matched_rules) |->
                            http.data.matched_rules[i].rule_name],
          is_critical |-> http.data.should_deny]
    ELSE [rule_hits |-> <<>>, is_critical |-> FALSE]

(***************************************************************************)
(* SCA level                                                               *)
(***************************************************************************)
\* Amounts are cents: 30.0 EUR = 3000, 10000.0 EUR = 1000000.
\* determine_sca_level with the low-value exemption reaching 30.00 itself.
determine_sca_level_exempting_30(risk_score, amount) ==
    IF amount # 0 /\ amount <= 3000 THEN "NONE"
    ELSE IF amount # 0 /\ amount > 1000000 THEN "HARDWARE_TOKEN"
    ELSE IF risk_score < 30 THEN "NONE"
    ELSE IF risk_score < 50 THEN "OTP_SMS"
    ELSE IF risk_score < 70 THEN "BIOMETRIC"
    ELSE IF risk_score < 90 THEN "PUSH_NOTIFICATION"
    ELSE "HARDWARE_TOKEN"

\* determine_sca_level without the low-value exemption.
determine_sca_level_without_exemption(risk_score, amount) ==
    IF amount # 0 /\ amount > 1000000 THEN "HARDWARE_TOKEN"
    ELSE IF risk_score < 30 THEN "NONE"
    ELSE IF risk_score < 50 THEN "OTP_SMS"
    ELSE IF risk_score < 70 THEN "BIOMETRIC"
    ELSE IF risk_score < 90 THEN "PUSH_NOTIFICATION"
    ELSE "HARDWARE_TOKEN"

determine_sca_level(risk_score, amount) ==
    IF amount # 0 /\ amount < 3000 THEN "NONE"
    ELSE IF amount # 0 /\ amount > 1000000 THEN "HARDWARE_TOKEN"
    ELSE IF risk_score < 30 THEN "NONE"
    ELSE IF risk_score < 50 THEN "OTP_SMS"
    ELSE IF risk_score < 70 THEN "BIOMETRIC"
    ELSE IF risk_score < 90 THEN "PUSH_NOTIFICATION"
    ELSE "HARDWARE_TOKEN"

(***************************************************************************)
(* Inputs of the scoring pipeline                                          *)
(***************************************************************************)
R_DENY == Rule("r_geo", "blocked_country", "deny", 100)
R_REVIEW == Rule("r_amt", "high_amount", "review", 50)

\* Answers of the model: one score per band, with zero, one and more than
\* three top features.
MLAnswers ==
    {MLCall(TRUE, 20, <<>>),
     MLCall(TRUE, 60, <<"amount">>),
     MLCall(TRUE, 85, <<"amount", "mcc", "geo", "hour">>)}

\* Answers of the rules service: the response computed from the list matches
\* and the rules that matched.
RulesAnswer(deny_matches, allow_matches, matched) ==
    RulesCall(TRUE, evaluate_transaction(TRUE, deny_matches, allow_matches, matched))

RulesAnswers ==
    {RulesAnswer(d, a, m) :
        d \in {<<>>, <<"user_id">>},
        a \in {<<>>, <<"device_id">>},
        m \in {<<>>, <<R_DENY, R_REVIEW>>}}
    \cup {RulesAnswer(<<>>, <<>>, <<R_REVIEW>>)}

\* A run's environment: the payload of the submitted event, what the model
\* and the rules service answer for it, the collaborator whose calls may
\* fail in the run ("none": no call fails), and whether the run tracks the
\* wall clock (timed) or leaves every timestamp at 0. kafka_enable is the
\* producer's enabled flag: the configured value, FALSE when the bus is
\* switched off or the producer failed to start.
Environment(amount, has_initial_2fa, ml, rules, faulty, timed) ==
    [amount |-> amount, has_initial_2fa |-> has_initial_2fa, ml |-> ml,
     rules |-> rules, faulty |-> faulty, timed |-> timed,
     kafka_enable |-> KAFKA_ENABLE]

\* Every answer of the two services with healthy or failing service calls
\* (has_initial_2fa only changes the decision of a medium score); a failing
\* store or bus, and a disabled bus, with the rule outcomes that change the
\* decision.
Environments ==
    {Environment(2500, h, m, ru, f, FALSE) :
        h \in {FALSE}, m \in MLAnswers, ru \in RulesAnswers,
        f \in {"none", "ml", "rules"}}
    \cup
    {Environment(2500, TRUE, MLCall(TRUE, 60, <<"amount">>), ru, f, FALSE) :
        ru \in RulesAnswers, f \in {"none", "ml", "rules"}}
    \cup
    {Environment(2500, FALSE, m, ru, f, FALSE) :
        m \in MLAnswers,
        ru \in {RulesAnswer(<<>>, <<>>, <<>>),
                RulesAnswer(<<>>, <<>>, <<R_DENY, R_REVIEW>>)},
        f \in {"redis", "velocity", "db", "kafka"}}
    \cup
    {[Environment(2500, FALSE, m, ru, "none", FALSE) EXCEPT !.kafka_enable = FALSE] :
        m \in MLAnswers,
        ru \in {RulesAnswer(<<>>, <<>>, <<>>),
                RulesAnswer(<<>>, <<>>, <<R_DENY, R_REVIEW>>)}}

\* The same runs with the wall clock tracked, for one answer of each service.
TimedEnvironments ==
    {Environment(2500, FALSE, MLCall(TRUE, 20, <<>>), RulesAnswer(<<>>, <<>>, <<>>),
                 f, TRUE) :
        f \in {"none", "redis", "velocity", "db", "ml", "rules", "kafka"}}

\* Outcomes of a call to collaborator c: it succeeds, or it may also fail.
Outcomes(c) == IF env.faulty = c THEN BOOLEAN ELSE {TRUE}

MLCalls == {env.ml} \cup (IF env.faulty = "ml" THEN {MLFailure} ELSE {})

RulesCalls == {env.rules} \cup (IF env.faulty = "rules" THEN {RulesFailure} ELSE {})

(***************************************************************************)
(* Velocity                                                                *)
(***************************************************************************)
WINDOW_1H == 3600
WINDOW_24H == 86400

\* int(time.time()): the clock in whole seconds.
unix_time(utcnow) == (utcnow * TOTAL_TIMEOUT_MS) \div 1000

\* The three sorted sets of a user before any transaction: members of
\* velocity:<user>:1h and :24h are tx ids, of :amount_24h <<tx id, amount>>;
\* a member's score is the time in its tx id. expire holds the time at which
\* Redis drops each key.
NoVelocity ==
    [h1 |-> {}, h24 |-> {}, amount_24h |-> {},
     expire |-> [h1 |-> 0, h24 |-> 0, amount_24h |-> 0]]

\* What record_transaction returns when it cannot count.
ZeroVelocity == [velocity_1h |-> 0, velocity_24h |-> 0, amount_sum_24h |-> 0]

RECURSIVE amount_sum(_)
\* sum(float(entry.split(":")[-1]) for entry in amount_entries)
amount_sum(amount_entries) ==
    IF amount_entries = {} THEN 0
    ELSE LET entry == CHOOSE e \in amount_entries : TRUE
         IN  entry[2] + amount_sum(amount_entries \ {entry})

\* The sorted sets as Redis holds them at a time: a key past its expiry is
\* gone.
live(zsets, time) ==
    [h1 |-> IF time < zsets.expire.h1 THEN zsets.h1 ELSE {},
     h24 |-> IF time < zsets.expire.h24 THEN zsets.h24 ELSE {},
     amount_24h |-> IF time < zsets.expire.amount_24h THEN zsets.amount_24h ELSE {},
     expire |-> zsets.expire]

\* record_transaction handing the last counts it saw to the caller when
\* Redis fails.
record_transaction_stale_on_failure(zsets, amount, time, redis_ok) ==
    [zsets |-> zsets,
     data |-> [velocity_1h |-> Cardinality(zsets.h1) + 1,
               velocity_24h |-> Cardinality(zsets.h24) + 1,
               amount_sum_24h |-> amount_sum(zsets.amount_24h) + amount]]

\* record_transaction at clock reading time (tx_id is f"{now}:{id(self)}"
\* of the one tracker of the process, so the time identifies it): the
\* sorted sets after the call and the counts returned. redis_ok = FALSE:
\* the tracker is not connected or a Redis call raises.
record_transaction(zsets, amount, time, redis_ok) ==
    IF ~redis_ok
    THEN [zsets |-> zsets, data |-> ZeroVelocity]
    ELSE LET z == live(zsets, time)
             h1 == {t \in z.h1 : t > time - WINDOW_1H} \cup {time}
             h24 == {t \in z.h24 : t > time - WINDOW_24H} \cup {time}
             amount_24h == {e \in z.amount_24h : e[1] > time - WINDOW_24H}
                           \cup {<<time, amount>>}
         IN  [zsets |-> [h1 |-> h1, h24 |-> h24, amount_24h |-> amount_24h,
                         expire |-> [h1 |-> time + WINDOW_1H + 60,
                                     h24 |-> time + WINDOW_24H + 60,
                                     amount_24h |-> time + WINDOW_24H + 60]],
              data |-> [velocity_1h |-> Cardinality(h1),
                        velocity_24h |-> Cardinality(h24),
                        amount_sum_24h |-> amount_sum(amount_24h)]]

\* get_velocity at clock reading time: the 1h and 24h sets are pruned and
\* counted, the amount set is read as it is.
get_velocity(zsets, time, redis_ok) ==
    IF ~redis_ok
    THEN [zsets |-> zsets, data |-> ZeroVelocity]
    ELSE LET z == live(zsets, time)
             h1 == {t \in z.h1 : t > time - WINDOW_1H}
             h24 == {t \in z.h24 : t > time - WINDOW_24H}
         IN  [zsets |-> [h1 |-> h1, h24 |-> h24, amount_24h |-> z.amount_24h,
                         expire |-> z.expire],
              data |-> [velocity_1h |-> Cardinality(h1),
                        velocity_24h |-> Cardinality(h24),
                        amount_sum_24h |-> amount_sum(z.amount_24h)]]

\* The velocity part of the context posted to the rules service.
rules_context(request, velocity_data) ==
    [transaction_id |-> request.event_id,
     user_id |-> request.user_id,
     amount |-> request.amount,
     tx_count_1h |-> velocity_data.velocity_1h,
     tx_count_24h |-> velocity_data.velocity_24h,
     amount_sum_24h |-> velocity_data.amount_sum_24h]

(***************************************************************************)
(* State of one request                                                    *)
(***************************************************************************)
NoResult ==
    [decision |-> "NONE", score |-> NoScore, rule_hits |-> <<>>, reasons |-> <<>>,
     requires_2fa |-> FALSE, sca_challenge |-> "NONE"]

\* start_time is the handler's clock reading on entry, total_latency_ms what
\* it computes when orchestrate has returned, before it persists anything.
NoOrch ==
    [velocity_ok |-> FALSE, velocity_data |-> ZeroVelocity,
     context |-> rules_context(ScoreRequest, ZeroVelocity),
     ml |-> MLFailure, rules |-> RulesFailure, result |-> NoResult,
     start_time |-> 0, total_latency_ms |-> 0]

\* ScoreResponse (models.py); status 0 marks "no response yet".
ScoreResponse(event_id, decision_id, decision, score, reasons, rule_hits, requires_2fa) ==
    [status |-> 200, event_id |-> event_id, decision_id |-> decision_id,
     decision |-> decision, score |-> score, reasons |-> reasons,
     rule_hits |-> rule_hits, requires_2fa |-> requires_2fa]

NoResponse ==
    [status |-> 0, event_id |-> "", decision_id |-> NoDecision,
     decision |-> "NONE", score |-> NoScore, reasons |-> <<>>,
     rule_hits |-> <<>>, requires_2fa |-> FALSE]

(***************************************************************************)
(* Storage                                                                 *)
(***************************************************************************)
\* get_decision: the row with this decision_id, as a set (empty: None).
get_decision(decision_id) == {d \in decisions : d.decision_id = decision_id}

\* INSERT INTO events ... ON CONFLICT (event_id) DO NOTHING
store_event(request, ts) ==
    IF \E ev \in events : ev.event_id = request.event_id
    THEN events
    ELSE events \cup {[event_id |-> request.event_id,
                       tenant_id |-> request.tenant_id,
                       ts |-> ts,
                       type |-> "card_payment",
                       idem_key |-> idem_key(request)]}

\* INSERT INTO decisions ...
store_decision(decision_id, request, result, created_at) ==
    decisions \cup {[decision_id |-> decision_id,
                     event_id |-> request.event_id,
                     tenant_id |-> request.tenant_id,
                     decision |-> result.decision,
                     score |-> result.score,
                     rule_hits |-> result.rule_hits,
                     reasons |-> result.reasons,
                     created_at |-> created_at]}

(***************************************************************************)
(* orchestrate                                                             *)
(***************************************************************************)
\* The result dictionary of orchestrate, given what the two parallel calls
\* yielded and whether the INSERT of the SCA challenge went through.
\* sca_challenge is the challenge_type of the challenge created, or
\* "NO_CHALLENGE" for None.
\* orchestrate in which the failure of one of the two gathered calls discards
\* the answer of the other.
orchestrate_gather_cancelling(request, ml_http, rules_http, sca_ok) ==
    LET both == ml_http.ok /\ rules_http.ok
        ml == call_model_serving(IF both THEN ml_http ELSE MLFailure)
        ru == call_rules_service(IF both THEN rules_http ELSE RulesFailure)
        d  == _make_decision(ml.score, ru.rule_hits, ru.is_critical,
                             request.has_initial_2fa, ml.top_features)
    IN  [decision |-> d.decision,
         score |-> ml.score,
         rule_hits |-> ru.rule_hits,
         reasons |-> d.reasons,
         requires_2fa |-> d.requires_2fa,
         sca_challenge |->
            IF ml.score # NoScore /\ ml.score > SCA_MIN_SCORE /\ sca_ok
            THEN determine_sca_level(ml.score, request.amount)
            ELSE "NO_CHALLENGE"]

orchestrate(request, ml_http, rules_http, sca_ok) ==
    LET ml == call_model_serving(ml_http)
        ru == call_rules_service(rules_http)
        d  == _make_decision(ml.score, ru.rule_hits, ru.is_critical,
                             request.has_initial_2fa, ml.top_features)
    IN  [decision |-> d.decision,
         score |-> ml.score,
         rule_hits |-> ru.rule_hits,
         reasons |-> d.reasons,
         requires_2fa |-> d.requires_2fa,
         sca_challenge |->
            IF ml.score # NoScore /\ ml.score > SCA_MIN_SCORE /\ sca_ok
            THEN determine_sca_level(ml.score, request.amount)
            ELSE "NO_CHALLENGE"]

(***************************************************************************)
(* POST /v1/score, one action per await                                    *)
(***************************************************************************)
InitIn(environments) ==
    /\ env \in environments
    /\ pc = [r \in Requests |-> "idle"]
    /\ existing = [r \in Requests |-> NoDecision]
    /\ cas = [r \in Requests |-> "none"]
    /\ sequential = [r \in Requests |-> FALSE]
    /\ orch = [r \in Requests |-> NoOrch]
    /\ resp = [r \in Requests |-> NoResponse]
    /\ idem = NoDecision
    /\ events = {}
    /\ decisions = {}
    /\ sca_challenges = {}
    /\ velocity = NoVelocity
    /\ recorded = <<>>
    /\ rules_v2 = {}
    /\ app_state = [rules_cache |-> <<>>, cache_timestamp |-> 0]
    /\ rules_call = [op |-> "none", db_ok |-> TRUE, loaded |-> FALSE, returned |-> <<>>]
    /\ decision_events = {}
    /\ case_events = {}
    /\ audit_logs = <<>>
    /\ last_sql = [statement |-> "NONE", error |-> ""]
    /\ now = 0

\* Request r arrives (requests are numbered in arrival order); the handler
\* draws its decision id and check_and_set issues GET idem:<key>.
\* redis_ok = FALSE: the call raises, check_and_set returns None (fail open).
CheckAndSetGet(r, redis_ok) ==
    /\ pc[r] = "idle"
    /\ IF r = 1 THEN TRUE ELSE pc[r - 1] # "idle"
    /\ sequential' = [sequential EXCEPT ![r] = IF r = 1 THEN FALSE
                                                ELSE pc[r - 1] = "done"]
    /\ LET found == idem
       IN  IF ~redis_ok THEN
               /\ cas' = [cas EXCEPT ![r] = "error"]
               /\ pc' = [pc EXCEPT ![r] = "store_event"]
               /\ UNCHANGED existing
           ELSE IF found # NoDecision THEN
               /\ cas' = [cas EXCEPT ![r] = "hit"]
               /\ existing' = [existing EXCEPT ![r] = found]
               /\ pc' = [pc EXCEPT ![r] = "get_decision"]
           ELSE
               /\ pc' = [pc EXCEPT ![r] = "setex"]
               /\ UNCHANGED <<cas, existing>>
    /\ orch' = [orch EXCEPT ![r].start_time = now]
    /\ UNCHANGED <<resp, idem, events, decisions, sca_challenges, velocity, rules_v2, app_state, rules_call, recorded,
                   decision_events, case_events, audit_logs, now, env, last_sql, polIn, polOut>>

\* The HTTPException(500) of the handler's except branch.
ErrorResponse == [NoResponse EXCEPT !.status = 500]

\* check_and_set letting the Redis error of SETEX through to the handler.
CheckAndSetSetexRaising(r, redis_ok) ==
    /\ pc[r] = "setex"
    /\ IF redis_ok
       THEN /\ idem' = new_decision_id(r)
            /\ cas' = [cas EXCEPT ![r] = "miss"]
            /\ pc' = [pc EXCEPT ![r] = "store_event"]
            /\ UNCHANGED resp
       ELSE /\ cas' = [cas EXCEPT ![r] = "error"]
            /\ pc' = [pc EXCEPT ![r] = "done"]
            /\ resp' = [resp EXCEPT ![r] = ErrorResponse]
            /\ UNCHANGED idem
    /\ UNCHANGED <<existing, sequential, orch, events, decisions, sca_challenges, velocity, rules_v2, app_state, rules_call, recorded,
                   decision_events, case_events, audit_logs, now, env, last_sql, polIn, polOut>>

\* check_and_set: SETEX idem:<key> ttl decision_id, then return None.
CheckAndSetSetex(r, redis_ok) ==
    /\ pc[r] = "setex"
    /\ IF redis_ok
       THEN /\ idem' = new_decision_id(r)
            /\ cas' = [cas EXCEPT ![r] = "miss"]
       ELSE /\ cas' = [cas EXCEPT ![r] = "error"]
            /\ UNCHANGED idem
    /\ pc' = [pc EXCEPT ![r] = "store_event"]
    /\ UNCHANGED <<existing, sequential, orch, resp, events, decisions, sca_challenges, velocity, rules_v2, app_state, rules_call, recorded,
                   decision_events, case_events, audit_logs, now, env, last_sql, polIn, polOut>>

\* existing_decision_id is set: read the prior decision and return it, or
\* fall through to scoring when no row comes back.
GetCachedDecision(r, db_ok) ==
    /\ pc[r] = "get_decision"
    /\ LET rows == IF db_ok THEN get_decision(existing[r]) ELSE {}
       IN  IF rows # {}
           THEN LET cached_decision == CHOOSE d \in rows : TRUE
                IN  /\ resp' = [resp EXCEPT ![r] =
                            ScoreResponse(ScoreRequest.event_id,
                                          existing[r],
                                          cached_decision.decision,
                                          cached_decision.score,
                                          cached_decision.reasons,
                                          cached_decision.rule_hits,
                                          FALSE)]
                    /\ pc' = [pc EXCEPT ![r] = "done"]
           ELSE /\ pc' = [pc EXCEPT ![r] = "store_event"]
                /\ UNCHANGED resp
    /\ UNCHANGED <<existing, cas, sequential, orch, idem, events, decisions,
                   sca_challenges, velocity, rules_v2, app_state, rules_call, recorded, decision_events, case_events, audit_logs, now,
                   env, last_sql, polIn, polOut>>

\* await postgres_storage.store_event(...): the result is not looked at.
StoreEvent(r, db_ok) ==
    /\ pc[r] = "store_event"
    /\ events' = IF db_ok THEN store_event(ScoreRequest, now) ELSE events
    /\ now' = IF env.timed THEN now + 1 ELSE now
    /\ pc' = [pc EXCEPT ![r] = "orchestrate"]
    /\ UNCHANGED <<existing, cas, sequential, orch, resp, idem, decisions,
                   sca_challenges, velocity, rules_v2, app_state, rules_call, recorded, decision_events, case_events, audit_logs,
                   env, last_sql, polIn, polOut>>

\* int((datetime.utcnow() - start_time).total_seconds() * 1000); one tick of
\* the clock lasts one total budget.
total_latency_ms(start_time, utcnow) == (utcnow - start_time) * TOTAL_TIMEOUT_MS

\* await orchestrator.orchestrate(request), and the total latency computed
\* on its return.
Orchestrate(r, velocity_ok, ml_http, rules_http, sca_ok) ==
    /\ pc[r] = "orchestrate"
    /\ LET call == record_transaction(velocity, ScoreRequest.amount,
                                      unix_time(now), velocity_ok)
           result == orchestrate(ScoreRequest, ml_http, rules_http, sca_ok)
       IN  /\ velocity' = call.zsets
           /\ recorded' = IF velocity_ok
                          THEN Append(recorded, [time |-> unix_time(now),
                                                 amount |-> ScoreRequest.amount])
                          ELSE recorded
           /\ orch' = [orch EXCEPT ![r] =
                          [velocity_ok |-> velocity_ok,
                           velocity_data |-> call.data,
                           context |-> rules_context(ScoreRequest, call.data),
                           ml |-> ml_http, rules |-> rules_http, result |-> result,
                           start_time |-> orch[r].start_time,
                           total_latency_ms |->
                               total_latency_ms(orch[r].start_time, now)]]
           /\ sca_challenges' =
                 IF result.sca_challenge # "NO_CHALLENGE"
                 THEN sca_challenges \cup
                      {[challenge_id |-> Cardinality(sca_challenges) + 1,
                        user_id |-> ScoreRequest.user_id,
                        transaction_id |-> ScoreRequest.event_id,
                        risk_score |-> result.score,
                        challenge_type |-> result.sca_challenge,
                        status |-> "PENDING"]}
                 ELSE sca_challenges
    /\ pc' = [pc EXCEPT ![r] = "store_decision"]
    /\ UNCHANGED <<existing, cas, sequential, resp, idem, events, decisions,
                   rules_v2, app_state, rules_call, decision_events, case_events, audit_logs, now, env, last_sql, polIn, polOut>>

\* store_decision letting the database error through to the handler.
StoreDecisionRaising(r, db_ok) ==
    /\ pc[r] = "store_decision"
    /\ decisions' = IF db_ok
                    THEN store_decision(new_decision_id(r), ScoreRequest,
                                        orch[r].result, now)
                    ELSE decisions
    /\ now' = IF env.timed THEN now + 1 ELSE now
    /\ pc' = [pc EXCEPT ![r] = IF db_ok THEN "publish" ELSE "done"]
    /\ resp' = IF db_ok THEN resp ELSE [resp EXCEPT ![r] = ErrorResponse]
    /\ UNCHANGED <<existing, cas, sequential, orch, idem, events,
                   sca_challenges, velocity, rules_v2, app_state, rules_call, recorded, decision_events, case_events, audit_logs,
                   env, last_sql, polIn, polOut>>

\* await postgres_storage.store_decision(...): the result is not looked at.
StoreDecision(r, db_ok) ==
    /\ pc[r] = "store_decision"
    /\ decisions' = IF db_ok
                    THEN store_decision(new_decision_id(r), ScoreRequest,
                                        orch[r].result, now)
                    ELSE decisions
    /\ now' = IF env.timed THEN now + 1 ELSE now
    /\ pc' = [pc EXCEPT ![r] = "publish"]
    /\ UNCHANGED <<existing, cas, sequential, orch, resp, idem, events,
                   sca_challenges, velocity, rules_v2, app_state, rules_call, recorded, decision_events, case_events, audit_logs,
                   env, last_sql, polIn, polOut>>

\* The decision_events message of a decision.
decision_event(request, decision_id, result) ==
    [event_id |-> request.event_id, decision_id |-> decision_id,
     decision |-> result.decision, score |-> result.score,
     tenant_id |-> request.tenant_id]

\* Only a DENY opens a case.
needs_case_deny_only(decision) == decision = "DENY"

\* if decision in [DecisionType.CHALLENGE, DecisionType.DENY]
needs_case(decision) == decision \in {"CHALLENGE", "DENY"}

\* The case_events message of a decision.
case_event(request, decision_id, result) ==
    [event_id |-> request.event_id, decision_id |-> decision_id,
     decision |-> result.decision, score |-> result.score,
     priority |-> IF result.decision = "DENY" THEN 2 ELSE 1,
     queue |-> IF result.decision = "DENY" THEN "high_risk" ELSE "medium_risk",
     tenant_id |-> request.tenant_id]

\* A producer that sends whatever its enabled flag says.
publish_ignoring_enabled(topic, message, enabled, kafka_ok) ==
    IF kafka_ok THEN topic \cup {message} ELSE topic

\* publish_decision_event / publish_case_event: nothing is sent when the
\* producer is not enabled; kafka_ok = FALSE: send_and_wait raises and the
\* producer swallows it. The result is the topic after the call.
publish(topic, message, enabled, kafka_ok) ==
    IF enabled /\ kafka_ok THEN topic \cup {message} ELSE topic

\* publish_decision_event, publish_case_event for CHALLENGE / DENY, and the
\* return of the ScoreResponse.
PublishAndRespond(r, decision_ok, case_ok) ==
    /\ pc[r] = "publish"
    /\ LET result == orch[r].result
           request == ScoreRequest
       IN  /\ decision_events' =
                 publish(decision_events,
                         decision_event(request, new_decision_id(r), result),
                         env.kafka_enable, decision_ok)
           /\ case_events' =
                 IF needs_case(result.decision)
                 THEN publish(case_events,
                              case_event(request, new_decision_id(r), result),
                              env.kafka_enable, case_ok)
                 ELSE case_events
           /\ resp' = [resp EXCEPT ![r] =
                          ScoreResponse(request.event_id, new_decision_id(r),
                                        result.decision, result.score,
                                        result.reasons, result.rule_hits,
                                        result.requires_2fa)]
    /\ pc' = [pc EXCEPT ![r] = "done"]
    /\ UNCHANGED <<existing, cas, sequential, orch, idem, events, decisions,
                   sca_challenges, velocity, rules_v2, app_state, rules_call, recorded, audit_logs, now, env, last_sql, polIn, polOut>>

Next ==
    \/ \E r \in Requests, ok \in Outcomes("redis") : CheckAndSetGet(r, ok)
    \/ \E r \in Requests, ok \in Outcomes("redis") : CheckAndSetSetex(r, ok)
    \/ \E r \in Requests, ok \in Outcomes("db") : GetCachedDecision(r, ok)
    \/ \E r \in Requests, ok \in Outcomes("db") : StoreEvent(r, ok)
    \/ \E r \in Requests, vok \in Outcomes("velocity"), m \in MLCalls,
          ru \in RulesCalls, ok \in Outcomes("db") :
          Orchestrate(r, vok, m, ru, ok)
    \/ \E r \in Requests, ok \in Outcomes("db") : StoreDecision(r, ok)
    \/ \E r \in Requests, dok \in Outcomes("kafka"), cok \in Outcomes("kafka") :
          PublishAndRespond(r, dok, cok)

\* The arguments and the result of "no call of _make_decision".
NoPolicyInput ==
    [score |-> NoScore, rule_hits |-> <<>>, is_critical |-> FALSE,
     has_initial_2fa |-> FALSE, top_features |-> <<>>]

NoPolicyResult == Decision("NONE", <<>>, FALSE)

NoPolicyCall ==
    /\ polIn = NoPolicyInput
    /\ polOut = NoPolicyResult

Init == InitIn(Environments) /\ NoPolicyCall

InitTimed == InitIn(TimedEnvironments) /\ NoPolicyCall

Spec == Init /\ [][Next]_vars

\* The scoring pipeline with timestamps.
SpecTimed == InitTimed /\ [][Next]_vars

(***************************************************************************)
(* Idempotency                                                             *)
(***************************************************************************)
\* The requests that have returned a response.
Done == {r \in Requests : pc[r] = "done"}

\* The decision rows of the submitted event's fingerprint.
RowsOfEvent == {d \in decisions : d.event_id = EVENT_ID /\ d.tenant_id = DEFAULT_TENANT_ID}

\* C1: when no collaborator fails, duplicate submissions of one
\* (tenant_id, event_id) leave at most one decision row for the fingerprint
\* (exactly one once a caller has its response), and all responses carry the
\* same decision_id and the same decision.
C1_OneDecisionPerFingerprint ==
    env.faulty = "none" =>
        /\ Cardinality(RowsOfEvent) <= 1
        /\ (Done # {} => Cardinality(RowsOfEvent) = 1)
        /\ \A r1, r2 \in Done :
              /\ resp[r1].decision_id = resp[r2].decision_id
              /\ resp[r1].decision = resp[r2].decision

\* C2: of the check_and_set calls for one key that Redis served without an
\* error, exactly one returns None once a call has returned, and every other
\* call returns that call's decision id.
C2_CheckAndSetAtomic ==
    LET winners == {r \in Requests : cas[r] = "miss"}
    IN  /\ Cardinality(winners) <= 1
        /\ \A r \in Requests :
              cas[r] = "hit" => winners = {r2 \in Requests : new_decision_id(r2) = existing[r]}

\* C3: with Redis available, a request submitted after the previous request
\* for the same event has returned gets the same decision_id, decision,
\* score, reasons and rule_hits as that request.
C3_SequentialReplayIdentical ==
    env.faulty # "redis" =>
        \A r \in Done :
            sequential[r] =>
                /\ resp[r].decision_id = resp[r - 1].decision_id
                /\ resp[r].decision = resp[r - 1].decision
                /\ resp[r].score = resp[r - 1].score
                /\ resp[r].reasons = resp[r - 1].reasons
                /\ resp[r].rule_hits = resp[r - 1].rule_hits

(***************************************************************************)
(* Combination policy in the pipeline                                      *)
(***************************************************************************)
\* orchestrate has run for request r
Orchestrated(r) == orch[r].result # NoResult

\* the rules response received for r holds a matched rule with action deny
DenyRuleMatched(r) ==
    /\ orch[r].rules.ok
    /\ \E i \in 1..Len(orch[r].rules.data.matched_rules) :
          orch[r].rules.data.matched_rules[i].action = "deny"

\* C4: a request whose rules response holds a matched rule with action
\* "deny" is decided DENY, and DENY is what its caller receives, whatever the
\* ML score and has_initial_2fa.
C4_DenyRuleNeverAllowed ==
    \A r \in Requests :
        Orchestrated(r) /\ DenyRuleMatched(r) =>
            /\ orch[r].result.decision = "DENY"
            /\ (pc[r] = "done" => resp[r].decision = "DENY")

\* C4 witness: a low score with a matched deny rule, answered DENY.
C4_Witness ==
    \E r \in Requests :
        /\ pc[r] = "done"
        /\ DenyRuleMatched(r)
        /\ orch[r].result.score = 20
        /\ resp[r].decision = "DENY"

\* C5: a request whose ML call failed has a null score and is never decided
\* ALLOW; unless the rules response is critical it is decided CHALLENGE with
\* requires_2fa and the reason "Unable to compute risk score", and that is
\* what its caller receives.
C5_NullScoreNeverAllowed ==
    \A r \in Requests :
        Orchestrated(r) /\ ~orch[r].ml.ok =>
            LET result == orch[r].result
                critical == orch[r].rules.ok /\ orch[r].rules.data.should_deny
            IN  /\ result.score = NoScore
                /\ result.decision # "ALLOW"
                /\ (pc[r] = "done" => /\ resp[r].decision = result.decision
                                      /\ resp[r].score = NoScore)
                /\ ~critical =>
                      /\ result.decision = "CHALLENGE"
                      /\ result.requires_2fa
                      /\ \E i \in 1..Len(result.reasons) :
                            result.reasons[i].msg = "Unable to compute risk score"
                      /\ (pc[r] = "done" => resp[r].requires_2fa)

\* C5 witness: the ML call failed for a request with has_initial_2fa, rule
\* hits, no list match and no critical rule, and the caller received
\* CHALLENGE.
C5_Witness ==
    \E r \in Requests :
        /\ pc[r] = "done"
        /\ Orchestrated(r)
        /\ ~orch[r].ml.ok
        /\ env.has_initial_2fa
        /\ orch[r].rules.ok
        /\ ~orch[r].rules.data.should_deny
        /\ orch[r].rules.data.list_matches = <<>>
        /\ orch[r].result.rule_hits # <<>>
        /\ resp[r].decision = "CHALLENGE"
        /\ resp[r].requires_2fa

PolicyInputs ==
    [score : (0..100) \cup {NoScore},
     rule_hits : {<<>>, <<"high_amount">>,
                  <<"blocked_country", "high_amount", "night", "new_device">>},
     is_critical : BOOLEAN,
     has_initial_2fa : BOOLEAN,
     top_features : {<<>>, <<"amount">>, <<"amount", "mcc", "geo", "hour">>}]

InitPolicy ==
    /\ InitIn({Environment(2500, FALSE, MLFailure, RulesFailure, "none", FALSE)})
    /\ polIn \in PolicyInputs
    /\ polOut = NoPolicyResult

\* One call of _make_decision.
MakeDecision ==
    /\ polOut = NoPolicyResult
    /\ polOut' = _make_decision(polIn.score, polIn.rule_hits, polIn.is_critical,
                                polIn.has_initial_2fa, polIn.top_features)
    /\ UNCHANGED <<pc, existing, cas, sequential, orch, resp, idem, events,
                   decisions, sca_challenges, velocity, rules_v2, app_state, rules_call, recorded, decision_events, case_events,
                   audit_logs, now, env, last_sql, polIn>>

NextPolicy == MakeDecision

SpecPolicy == InitPolicy /\ [][NextPolicy]_vars

\* The first-match-wins table of the combination policy: the decision and
\* requires_2fa.
PolicyTable(score, is_critical, has_initial_2fa) ==
    CASE is_critical -> <<"DENY", FALSE>>
      [] ~is_critical /\ score = NoScore -> <<"CHALLENGE", TRUE>>
      [] ~is_critical /\ score # NoScore /\ score > 70 -> <<"CHALLENGE", TRUE>>
      [] ~is_critical /\ score # NoScore /\ 50 <= score /\ score <= 70 ->
            IF has_initial_2fa THEN <<"ALLOW", FALSE>> ELSE <<"CHALLENGE", TRUE>>
      [] ~is_critical /\ score # NoScore /\ score < 50 -> <<"ALLOW", FALSE>>

Scored == {r \in Done : resp[r].decision_id = new_decision_id(r)}

\* The audit rows that record the scoring of the submitted event.
ScoreAuditRows ==
    {i \in 1..Len(audit_logs) :
        /\ audit_logs[i].action = "SCORE_TRANSACTION"
        /\ audit_logs[i].entity = "transaction"
        /\ audit_logs[i].entity_id = EVENT_ID}

\* C8: when no collaborator fails, a request that completed on the
\* non-replay path has left exactly one event row for its event, exactly one
\* decision row under its decision id and one audit row with action
\* SCORE_TRANSACTION, entity "transaction" and entity_id = event_id.
C8_OneEventDecisionAuditRow ==
    env.faulty = "none" =>
        /\ \A r \in Scored :
              /\ Cardinality({ev \in events : ev.event_id = EVENT_ID}) = 1
              /\ Cardinality(get_decision(new_decision_id(r))) = 1
        /\ Cardinality(ScoreAuditRows) = Cardinality(Scored)

\* C9: every decision row has an event row with its event_id, written no
\* later than the decision row.
C9_DecisionHasEarlierEvent ==
    \A d \in decisions :
        \E ev \in events :
            /\ ev.event_id = d.event_id
            /\ ev.ts <= d.created_at

(***************************************************************************)
(* Audit log                                                               *)
(***************************************************************************)
\* A dict is modelled by its set of <<key, value>> pairs, None by "None".
\* HMAC-SHA256 over json.dumps(data, sort_keys=True): the canonical message
\* is determined by, and determines, the mapping from keys to values, and
\* the digest is taken to be collision free.
\* sign_audit_log over the identifying fields only.
sign_audit_log_identity_only(data) ==
    [algorithm |-> "hmac-sha256", key |-> HMAC_SECRET,
     message |-> [k \in DOMAIN data \ {"details", "ip_address"} |-> data[k]]]

sign_audit_log(data) ==
    [algorithm |-> "hmac-sha256", key |-> HMAC_SECRET, message |-> data]

verify_audit_log(data, signature) == sign_audit_log(data) = signature

\* The entry dict of create_audit_entry; utcnow is the clock reading that
\* becomes its "timestamp".
create_audit_entry(actor, action, entity, entity_id, details, ip_address, utcnow) ==
    LET entry == [actor |-> actor,
                  action |-> action,
                  entity |-> entity,
                  entity_id |-> entity_id,
                  timestamp |-> utcnow,
                  details |-> details,
                  ip_address |-> ip_address]
    IN  entry @@ [signature |-> sign_audit_log(entry)]

\* entry.pop("signature")
WithoutSignature(entry) == [k \in DOMAIN entry \ {"signature"} |-> entry[k]]

\* The test validate_audit_integrity applies to one entry.
entry_is_valid(entry) == verify_audit_log(WithoutSignature(entry), entry.signature)

validate_audit_integrity(entries) ==
    LET valid == {i \in 1..Len(entries) : entry_is_valid(entries[i])}
    IN  [total |-> Len(entries),
         valid |-> Cardinality(valid),
         invalid |-> Len(entries) - Cardinality(valid)]

\* Inputs of store_audit_log: the scoring entry of the specification and the
\* calls of tests/test_audit_hmac.py. details = {} also stands for None,
\* which the code replaces by {}.
AuditActions == {"SCORE_TRANSACTION", "TEST_AUDIT_LOG"}
AuditDetails == {{}, {<<"decision", "REVIEW">>}}
AuditAddresses == {"None", "127.0.0.1"}

\* The row store_audit_log inserts: the entry is signed with the Python
\* clock reading utcnow, the row carries PostgreSQL's NOW(), here ts.
audit_log_row(log_id, action, entity_id, details, ip_address, utcnow, ts) ==
    LET audit_entry == create_audit_entry("decision-engine", action, "transaction",
                                          entity_id, details, ip_address, utcnow)
        after_data == IF ip_address # "None"
                      THEN details \cup {<<"ip_address", ip_address>>}
                      ELSE details
    IN  [log_id |-> log_id,
         actor |-> audit_entry.actor,
         action |-> audit_entry.action,
         entity |-> audit_entry.entity,
         entity_id |-> audit_entry.entity_id,
         before |-> "None",
         after |-> after_data,
         signature |-> audit_entry.signature,
         ts |-> ts]

\* store_audit_log writing over the row of the same entity_id (an upsert).
StoreAuditLogUpsert(action, entity_id, details, ip_address, delay, db_ok) ==
    /\ Len(audit_logs) < MaxAuditRows
    /\ now + delay <= MaxTime
    /\ LET row == audit_log_row(Len(audit_logs) + 1, action, entity_id, details,
                                ip_address, now, now + delay)
           same == {i \in 1..Len(audit_logs) : audit_logs[i].entity_id = entity_id}
       IN  audit_logs' =
              IF ~db_ok THEN audit_logs
              ELSE IF same = {} THEN Append(audit_logs, row)
              ELSE [i \in 1..Len(audit_logs) |->
                       IF i \in same THEN [row EXCEPT !.log_id = i] ELSE audit_logs[i]]
    /\ last_sql' = [statement |-> "INSERT",
                    error |-> IF db_ok THEN "" ELSE "connection error"]
    /\ now' = now + delay
    /\ UNCHANGED <<pc, existing, cas, sequential, orch, resp, idem, events,
                   decisions, sca_challenges, velocity, rules_v2, app_state, rules_call, recorded, decision_events, case_events,
                   env, polIn, polOut>>

\* store_audit_log; delay is the time between the two clock readings.
StoreAuditLog(action, entity_id, details, ip_address, delay, db_ok) ==
    /\ Len(audit_logs) < MaxAuditRows
    /\ now + delay <= MaxTime
    /\ audit_logs' =
          IF db_ok
          THEN Append(audit_logs,
                      audit_log_row(Len(audit_logs) + 1, action, entity_id, details,
                                    ip_address, now, now + delay))
          ELSE audit_logs
    /\ last_sql' = [statement |-> "INSERT",
                    error |-> IF db_ok THEN "" ELSE "connection error"]
    /\ now' = now + delay
    /\ UNCHANGED <<pc, existing, cas, sequential, orch, resp, idem, events,
                   decisions, sca_challenges, velocity, rules_v2, app_state, rules_call, recorded, decision_events, case_events,
                   env, polIn, polOut>>

\* The storage layer's rule for audit_logs: the error it raises for a
\* statement ("" for none). Inserts are allowed, updates and deletes rejected.
audit_logs_worm(statement) ==
    IF statement \in {"UPDATE", "DELETE"}
    THEN "WORM compliance: " \o statement \o " not allowed"
    ELSE ""

\* UPDATE audit_logs SET actor = 'hacker' WHERE entity_id = ...
UpdateAuditLogs(entity_id) ==
    /\ LET error == audit_logs_worm("UPDATE")
       IN  /\ last_sql' = [statement |-> "UPDATE", error |-> error]
           /\ audit_logs' =
                 IF error # "" THEN audit_logs
                 ELSE [i \in 1..Len(audit_logs) |->
                          IF audit_logs[i].entity_id = entity_id
                          THEN [audit_logs[i] EXCEPT !.actor = "hacker"]
                          ELSE audit_logs[i]]
    /\ UNCHANGED <<pc, existing, cas, sequential, orch, resp, idem, events,
                   decisions, sca_challenges, velocity, rules_v2, app_state, rules_call, recorded, decision_events, case_events,
                   now, env, polIn, polOut>>

\* DELETE FROM audit_logs WHERE entity_id = ...
DeleteAuditLogs(entity_id) ==
    /\ LET error == audit_logs_worm("DELETE")
       IN  /\ last_sql' = [statement |-> "DELETE", error |-> error]
           /\ audit_logs' =
                 IF error # "" THEN audit_logs
                 ELSE SelectSeq(audit_logs, LAMBDA row : row.entity_id # entity_id)
    /\ UNCHANGED <<pc, existing, cas, sequential, orch, resp, idem, events,
                   decisions, sca_challenges, velocity, rules_v2, app_state, rules_call, recorded, decision_events, case_events,
                   now, env, polIn, polOut>>

AuditEntityIds == {EVENT_ID, "test_001"}

NextAudit ==
    \/ \E action \in AuditActions, entity_id \in AuditEntityIds,
          details \in AuditDetails, ip_address \in AuditAddresses,
          delay \in 0..1, db_ok \in BOOLEAN :
           StoreAuditLog(action, entity_id, details, ip_address, delay, db_ok)
    \/ \E entity_id \in AuditEntityIds : UpdateAuditLogs(entity_id)
    \/ \E entity_id \in AuditEntityIds : DeleteAuditLogs(entity_id)

InitAudit ==
    /\ InitIn({Environment(2500, FALSE, MLFailure, RulesFailure, "none", TRUE)})
    /\ NoPolicyCall

SpecAudit == InitAudit /\ [][NextAudit]_vars

\* C10: every row of audit_logs passes verification from its stored fields,
\* and the row with one of its stored fields changed does not.
C10_StoredRowVerifies ==
    \A i \in 1..Len(audit_logs) :
        LET row == audit_logs[i]
        IN  /\ entry_is_valid(row)
            /\ \A f \in {"actor", "action", "entity", "entity_id"} :
                  ~entry_is_valid([row EXCEPT ![f] = "tampered"])

\* C11: a step never removes or changes a row of audit_logs, and an UPDATE
\* or DELETE against audit_logs ends with an error and the table as it was.
C11_AuditLogAppendOnly ==
    [][/\ Len(audit_logs') >= Len(audit_logs)
       /\ \A i \in 1..Len(audit_logs) : audit_logs'[i] = audit_logs[i]
       /\ last_sql'.statement \in {"UPDATE", "DELETE"} =>
             /\ last_sql'.error # ""
             /\ audit_logs' = audit_logs]_vars

\* C11 witness: a DELETE was rejected on a table holding two rows with
\* different content.
C11_Witness ==
    /\ Len(audit_logs) = 2
    /\ audit_logs[1].entity_id = audit_logs[2].entity_id
    /\ audit_logs[1].after # audit_logs[2].after
    /\ last_sql.statement = "DELETE"
    /\ last_sql.error # ""

(***************************************************************************)
(* Signing and verifying an entry                                          *)
(***************************************************************************)
\* Unsigned entries: two values for every field of create_audit_entry's dict.
AuditEntries ==
    [actor : {"decision-engine", "hacker"},
     action : AuditActions,
     entity : {"transaction", "test"},
     entity_id : AuditEntityIds,
     timestamp : 0..1,
     details : AuditDetails,
     ip_address : AuditAddresses]

NoSignResult == [called |-> FALSE, same |-> FALSE, other |-> FALSE]

\* polIn.entry is signed; polIn.presented is the entry later presented with
\* that signature.
InitSign ==
    /\ InitIn({Environment(2500, FALSE, MLFailure, RulesFailure, "none", FALSE)})
    /\ polIn \in [entry : AuditEntries, presented : AuditEntries]
    /\ polOut = NoSignResult

\* signature = sign_audit_log(entry), then verify_audit_log of the entry and
\* of the presented entry against it.
SignAndVerify ==
    /\ ~polOut.called
    /\ LET signature == sign_audit_log(polIn.entry)
       IN  polOut' = [called |-> TRUE,
                      same |-> verify_audit_log(polIn.entry, signature),
                      other |-> verify_audit_log(polIn.presented, signature)]
    /\ UNCHANGED <<pc, existing, cas, sequential, orch, resp, idem, events,
                   decisions, sca_challenges, velocity, rules_v2, app_state, rules_call, recorded, decision_events, case_events,
                   audit_logs, now, env, last_sql, polIn>>

NextSign == SignAndVerify

SpecSign == InitSign /\ [][NextSign]_vars

StoreEventFailed(r) == Orchestrated(r) /\ events = {}

\* Request r went through store_decision and there is no row under its
\* decision id: its INSERT INTO decisions failed.
StoreDecisionFailed(r) ==
    /\ Orchestrated(r)
    /\ pc[r] \in {"publish", "done"}
    /\ get_decision(new_decision_id(r)) = {}

\* The decision the policy computes from what the two calls of r yielded.
PolicyDecision(r) ==
    LET ml == call_model_serving(orch[r].ml)
        ru == call_rules_service(orch[r].rules)
    IN  _make_decision(ml.score, ru.rule_hits, ru.is_critical,
                       ScoreRequest.has_initial_2fa, ml.top_features)

\* C13: a request during which a database write failed is answered with
\* HTTP 500 and not with ALLOW.
C13_DatabaseFailureIsError ==
    \A r \in Done :
        StoreEventFailed(r) \/ StoreDecisionFailed(r) =>
            /\ resp[r].status = 500
            /\ resp[r].decision # "ALLOW"

\* C14: a request whose store_event or store_decision failed is answered
\* with status 200, its own decision id and the decision, score, rule hits
\* and requires_2fa the policy computed.
C14_StoreFailureStillDecides ==
    \A r \in Done :
        StoreEventFailed(r) \/ StoreDecisionFailed(r) =>
            /\ resp[r].status = 200
            /\ resp[r].decision_id = new_decision_id(r)
            /\ resp[r].decision = PolicyDecision(r).decision
            /\ resp[r].requires_2fa = PolicyDecision(r).requires_2fa
            /\ resp[r].reasons = PolicyDecision(r).reasons
            /\ resp[r].score = call_model_serving(orch[r].ml).score
            /\ resp[r].rule_hits = call_rules_service(orch[r].rules).rule_hits

\* C14 witness: both writes of a request failed and it was answered DENY on
\* a matched deny rule.
C14_Witness ==
    \E r \in Done :
        /\ StoreEventFailed(r)
        /\ StoreDecisionFailed(r)
        /\ DenyRuleMatched(r)
        /\ resp[r].status = 200
        /\ resp[r].decision = "DENY"

(***************************************************************************)
(* Bus publication                                                         *)
(***************************************************************************)
DecisionEventsOf(r) == {e \in decision_events : e.decision_id = new_decision_id(r)}

CaseEventsOf(r) == {e \in case_events : e.decision_id = new_decision_id(r)}

\* A message of scored request r did not reach the bus: its send raised or
\* the producer is not enabled.
PublishFailed(r) ==
    \/ DecisionEventsOf(r) = {}
    \/ needs_case(orch[r].result.decision) /\ CaseEventsOf(r) = {}

\* C15: a scored request of which a message did not reach the bus is
\* answered with status 200 and the decision the policy computed, as when
\* publication succeeds; with the producer not enabled both topics stay
\* empty.
C15_PublishFailureLeavesResponse ==
    /\ \A r \in Scored :
          PublishFailed(r) =>
              /\ resp[r].status = 200
              /\ resp[r].decision = PolicyDecision(r).decision
              /\ resp[r].requires_2fa = PolicyDecision(r).requires_2fa
              /\ resp[r].reasons = PolicyDecision(r).reasons
              /\ resp[r].score = call_model_serving(orch[r].ml).score
              /\ resp[r].rule_hits = call_rules_service(orch[r].rules).rule_hits
    /\ ~env.kafka_enable => decision_events = {} /\ case_events = {}

\* C15 witness: with the bus enabled, a request answered DENY on a matched
\* deny rule left neither a decision event nor a case event.
C15_Witness ==
    /\ env.kafka_enable
    /\ \E r \in Scored :
          /\ DecisionEventsOf(r) = {}
          /\ CaseEventsOf(r) = {}
          /\ DenyRuleMatched(r)
          /\ resp[r].status = 200
          /\ resp[r].decision = "DENY"

\* The case event of r carries the priority and queue of r's decision.
CaseEventMatches(r, e) ==
    /\ e.decision = resp[r].decision
    /\ e.decision = "DENY" => e.priority = 2 /\ e.queue = "high_risk"
    /\ e.decision = "CHALLENGE" => e.priority = 1 /\ e.queue = "medium_risk"

\* C16 (as claimed): with the bus enabled every scored request has exactly
\* one decision event, and a case event if and only if its decision is
\* CHALLENGE or DENY, with priority 2 / "high_risk" for DENY and priority 1 /
\* "medium_risk" for CHALLENGE.
C16_EventsPublished ==
    env.kafka_enable =>
        \A r \in Scored :
            /\ Cardinality(DecisionEventsOf(r)) = 1
            /\ CaseEventsOf(r) # {} <=> resp[r].decision \in {"CHALLENGE", "DENY"}
            /\ \A e \in CaseEventsOf(r) : CaseEventMatches(r, e)

\* C16 (amended): every message on the bus belongs to a scored request, which
\* has at most one decision event and at most one case event; a case event
\* exists only for CHALLENGE or DENY and carries priority 2 / "high_risk" for
\* DENY and priority 1 / "medium_risk" for CHALLENGE; when the bus is enabled
\* and no send fails, a scored request has exactly one decision event, and
\* exactly one case event if its decision is CHALLENGE or DENY.
C16_EventsPublishedUnlessSendFails ==
    /\ \A e \in decision_events \cup case_events :
          \E r \in Scored : e.decision_id = new_decision_id(r)
    /\ \A r \in Scored :
          /\ Cardinality(DecisionEventsOf(r)) <= 1
          /\ Cardinality(CaseEventsOf(r)) <= 1
          /\ CaseEventsOf(r) # {} => resp[r].decision \in {"CHALLENGE", "DENY"}
          /\ \A e \in CaseEventsOf(r) : CaseEventMatches(r, e)
          /\ \A e \in DecisionEventsOf(r) :
                e.decision = resp[r].decision /\ e.event_id = resp[r].event_id
          /\ env.kafka_enable /\ env.faulty # "kafka" =>
                /\ Cardinality(DecisionEventsOf(r)) = 1
                /\ resp[r].decision \in {"CHALLENGE", "DENY"} =>
                      Cardinality(CaseEventsOf(r)) = 1

\* C16 witness: with the bus enabled, a request answered CHALLENGE has its
\* decision event and its case event of priority 1 in queue "medium_risk".
C16_Witness ==
    /\ env.kafka_enable
    /\ \E r \in Scored :
          /\ resp[r].decision = "CHALLENGE"
          /\ DecisionEventsOf(r) # {}
          /\ \E e \in CaseEventsOf(r) : e.priority = 1 /\ e.queue = "medium_risk"

(***************************************************************************)
(* Total budget                                                            *)
(***************************************************************************)
\* The total latency the handler computed for r before persisting exceeds
\* the total budget.
BudgetExceeded(r) == Orchestrated(r) /\ orch[r].total_latency_ms > TOTAL_TIMEOUT_MS

\* C17: a request whose total budget was exceeded before persistence has its
\* response, with the decision orchestration computed, while store_decision
\* and publication are still to finish.
C17_OverBudgetRespondsBeforePersistence ==
    \A r \in Requests :
        BudgetExceeded(r) /\ pc[r] \in {"store_decision", "publish"} =>
            /\ resp[r].status = 200
            /\ resp[r].decision = orch[r].result.decision

(***************************************************************************)
(* Idempotency store failures                                              *)
(***************************************************************************)
\* C18: a request whose check_and_set met a Redis error (or no connection)
\* got None from it: it holds no existing decision id, goes on to be scored
\* as a new request, and is answered with status 200, its own decision id
\* and the decision the policy computed.
C18_IdempotencyFailsOpen ==
    \A r \in Requests :
        cas[r] = "error" =>
            /\ existing[r] = NoDecision
            /\ pc[r] \in {"store_event", "orchestrate", "store_decision",
                          "publish", "done"}
            /\ pc[r] = "done" =>
                  /\ resp[r].status = 200
                  /\ resp[r].decision_id = new_decision_id(r)
                  /\ resp[r].decision = PolicyDecision(r).decision

\* C18 witness: a later request, arriving when the key of the event is set,
\* met a Redis error and was scored under its own decision id.
C18_Witness ==
    \E r \in Done :
        /\ r > 1
        /\ cas[r] = "error"
        /\ idem # NoDecision
        /\ resp[r].status = 200
        /\ resp[r].decision_id = new_decision_id(r)
        /\ Cardinality(RowsOfEvent) = 2

(***************************************************************************)
(* Velocity degradation                                                    *)
(***************************************************************************)
\* C19: when the velocity store was unreachable or its call raised for a
\* request, record_transaction returned zeros for the three metrics, the
\* sorted sets hold nothing of the request, and orchestration went on: the
\* rules service was posted those zeros and the result was computed from the
\* model and rules calls.
C19_VelocityDegradesToZero ==
    \A r \in Requests :
        Orchestrated(r) /\ ~orch[r].velocity_ok =>
            /\ orch[r].velocity_data.velocity_1h = 0
            /\ orch[r].velocity_data.velocity_24h = 0
            /\ orch[r].velocity_data.amount_sum_24h = 0
            /\ orch[r].context.tx_count_1h = 0
            /\ orch[r].context.tx_count_24h = 0
            /\ orch[r].context.amount_sum_24h = 0
            /\ orch[r].ml \in MLCalls
            /\ orch[r].rules \in RulesCalls
            /\ orch[r].result.decision = PolicyDecision(r).decision

\* C19 witness: after one request was counted, the velocity call of the next
\* failed, and that request was answered on the model's high score.
C19_Witness ==
    \E r \in Done :
        /\ ~orch[r].velocity_ok
        /\ velocity.h1 # {}
        /\ orch[r].context.tx_count_1h = 0
        /\ orch[r].ml.ok
        /\ resp[r].status = 200
        /\ resp[r].decision = "CHALLENGE"

(***************************************************************************)
(* Allow lists                                                             *)
(***************************************************************************)
\* The rules response received for r took the allow-list short circuit: a
\* context field is on an allow list, none on a deny list, and the rules were
\* not evaluated.
AllowListed(r) ==
    /\ Orchestrated(r)
    /\ orch[r].rules.ok
    /\ orch[r].rules.data.list_matches # <<>>
    /\ ~orch[r].rules.data.evaluated

\* C20: a request with a context field on an allow list and none on a deny
\* list has no matched rule, and the decision orchestration computes for it
\* is ALLOW.
C20_AllowListShortCircuitsToAllow ==
    \A r \in Requests :
        AllowListed(r) =>
            /\ orch[r].rules.data.matched_rules = <<>>
            /\ orch[r].result.decision = "ALLOW"

(***************************************************************************)
(* Rules service: list checks and rule evaluation on their own             *)
(***************************************************************************)
MaxRules == 3

\* ListsChecker.check_fields, in the order they are looked up.
check_fields == <<"user_id", "ip_address", "device_id", "merchant_id", "geo">>

\* check_deny_lists / check_allow_lists: the fields of the context whose
\* value is a member of the field's set, in check_fields order. present are
\* the fields the context has a value for, members the fields whose value is
\* in the set; lookups is the number of SISMEMBER calls that answer before
\* one raises (the matches found so far are returned).
check_lists_of(present, members, lookups) ==
    LET looked == SelectSeq(check_fields, LAMBDA f : f \in present)
        answered == Take(looked, lookups)
    IN  SelectSeq(answered, LAMBDA f : f \in members)

\* A row of the rules table; matches abstracts the DSL: whether the rule's
\* expression evaluates to true on the context (an expression that raises
\* counts as not matching).
StoredRule(id, name, action, priority, enabled, matches) ==
    [id |-> id, name |-> name, action |-> action, priority |-> priority,
     enabled |-> enabled, matches |-> matches]

RECURSIVE sorted_rules(_)
\* sorted(rules, key=priority, reverse=True): stable, so rules of equal
\* priority keep their order.
sorted_rules(rules) ==
    IF rules = <<>> THEN <<>>
    ELSE LET rest == sorted_rules(Tail(rules))
             first == Head(rules)
             before == SelectSeq(rest, LAMBDA r : r.priority > first.priority)
         IN  before \o <<first>> \o SubSeq(rest, Len(before) + 1, Len(rest))

\* evaluate_rules that walks the rules in the order they were loaded.
evaluate_rules_unsorted(rules, looped) ==
    LET walked == Take(rules, looped)
        hits == SelectSeq(walked, LAMBDA r : r.enabled /\ r.matches)
    IN  [i \in 1..Len(hits) |->
            Rule(hits[i].id, hits[i].name, hits[i].action, hits[i].priority)]

\* evaluate_rules that returns nothing when the timeout check cut the loop.
evaluate_rules_dropping_on_timeout(rules, looped) ==
    LET walked == IF looped < Len(rules) THEN <<>> ELSE sorted_rules(rules)
        hits == SelectSeq(walked, LAMBDA r : r.enabled /\ r.matches)
    IN  [i \in 1..Len(hits) |->
            Rule(hits[i].id, hits[i].name, hits[i].action, hits[i].priority)]

\* RulesEngine.evaluate_rules; looped is the number of rules the loop gets
\* to before the timeout check breaks it.
evaluate_rules(rules, looped) ==
    LET walked == Take(sorted_rules(rules), looped)
        hits == SelectSeq(walked, LAMBDA r : r.enabled /\ r.matches)
    IN  [i \in 1..Len(hits) |->
            Rule(hits[i].id, hits[i].name, hits[i].action, hits[i].priority)]

\* The rules a call may find loaded.
RulePool ==
    {StoredRule("r1", "low", "review", 1, TRUE, TRUE),
     StoredRule("r2", "high", "deny", 10, TRUE, TRUE),
     StoredRule("r3", "disabled", "deny", 5, FALSE, TRUE),
     StoredRule("r4", "mid", "review", 5, TRUE, TRUE),
     StoredRule("r5", "other", "deny", 20, TRUE, FALSE)}

\* Rule lists of up to MaxRules different rules, in any order.
RuleLists ==
    {rs \in UNION {[1..n -> RulePool] : n \in 0..MaxRules} :
        \A i, j \in 1..Len(rs) : i # j => rs[i].id # rs[j].id}

NoRulesResult ==
    [called |-> FALSE, deny_matches |-> <<>>, allow_matches |-> <<>>,
     matched |-> <<>>,
     response |-> evaluate_transaction(FALSE, <<>>, <<>>, <<>>)]

\* One POST /evaluate: the context, what the deny and allow sets hold of it,
\* the rules loaded, and how far Redis and the clock let the call get.
InitRules ==
    /\ InitIn({Environment(2500, FALSE, MLFailure, RulesFailure, "none", FALSE)})
    /\ polIn \in [check_lists : BOOLEAN,
                  present : {{"user_id", "ip_address", "device_id", "merchant_id", "geo"},
                             {"user_id", "merchant_id", "geo"}},
                  deny_list : SUBSET {"user_id", "geo"},
                  allow_list : SUBSET {"device_id"},
                  deny_lookups : {0, 5},
                  rules : RuleLists,
                  looped : {0, 1, 2, MaxRules}]
    /\ polOut = NoRulesResult

EvaluateTransaction ==
    /\ ~polOut.called
    /\ LET deny_matches == check_lists_of(polIn.present, polIn.deny_list,
                                          polIn.deny_lookups)
           allow_matches == check_lists_of(polIn.present, polIn.allow_list, 5)
           matched == evaluate_rules(polIn.rules, polIn.looped)
       IN  polOut' = [called |-> TRUE,
                      deny_matches |-> deny_matches,
                      allow_matches |-> allow_matches,
                      matched |-> matched,
                      response |-> evaluate_transaction(polIn.check_lists, deny_matches,
                                                        allow_matches, matched)]
    /\ UNCHANGED <<pc, existing, cas, sequential, orch, resp, idem, events,
                   decisions, sca_challenges, velocity, rules_v2, app_state, rules_call, recorded, decision_events, case_events,
                   audit_logs, now, env, last_sql, polIn>>

NextRules == EvaluateTransaction

SpecRules == InitRules /\ [][NextRules]_vars

C23_MatchedSortedAndEnabled ==
    polOut.called =>
        /\ \A i, j \in 1..Len(polOut.matched) :
              i < j => polOut.matched[i].priority >= polOut.matched[j].priority
        /\ \A i \in 1..Len(polOut.matched) :
              \E k \in 1..Len(polIn.rules) :
                  /\ polIn.rules[k].id = polOut.matched[i].rule_id
                  /\ polIn.rules[k].enabled

\* C23 witness: the rules were loaded in increasing priority order with a
\* disabled rule between them; the two enabled ones matched, highest first.
C23_Witness ==
    /\ polOut.called
    /\ Len(polIn.rules) = 3
    /\ polIn.rules[1].id = "r1" /\ polIn.rules[2].id = "r3" /\ polIn.rules[3].id = "r2"
    /\ Len(polOut.matched) = 2
    /\ polOut.matched[1].rule_id = "r2"
    /\ polOut.matched[2].rule_id = "r1"

(***************************************************************************)
(* Rules service: the rules cache                                          *)
(***************************************************************************)
RULES_CACHE_TTL == 300
MaxTicks == 4

\* The clock of the rules service advances by half a TTL at a time.
CacheTick == RULES_CACHE_TTL \div 2

RECURSIVE fetch_rules(_)
\* SELECT ... FROM rules_v2 WHERE enabled = true ORDER BY priority DESC
\* (the tables used hold no two enabled rules of one priority).
fetch_rules(table) ==
    LET rows == {r \in table : r.enabled}
    IN  IF rows = {} THEN <<>>
        ELSE LET top == CHOOSE r \in rows : \A q \in rows : q.priority <= r.priority
             IN  <<top>> \o fetch_rules(rows \ {top})

\* load_rules_from_db that forgets the cache when the database fails.
load_rules_from_db_clearing(state, table, time, db_ok) ==
    IF db_ok
    THEN [app_state |-> [rules_cache |-> fetch_rules(table), cache_timestamp |-> time],
          returned |-> fetch_rules(table)]
    ELSE [app_state |-> [rules_cache |-> <<>>, cache_timestamp |-> state.cache_timestamp],
          returned |-> <<>>]

\* load_rules_from_db: the new app_state and the rules returned. The cache is
\* a dict keyed by rule id in load order, kept here as the list of its values.
load_rules_from_db(state, table, time, db_ok) ==
    IF db_ok
    THEN [app_state |-> [rules_cache |-> fetch_rules(table), cache_timestamp |-> time],
          returned |-> fetch_rules(table)]
    ELSE [app_state |-> state, returned |-> state.rules_cache]

\* cache_age > config.RULES_CACHE_TTL
cache_expired(state, time) == time - state.cache_timestamp > RULES_CACHE_TTL

\* The contents of rules_v2 an administrator may leave.
RuleTables ==
    {{},
     {StoredRule("r1", "low", "review", 1, TRUE, TRUE),
      StoredRule("r2", "high", "deny", 10, TRUE, TRUE)},
     {StoredRule("r1", "low", "review", 1, TRUE, TRUE),
      StoredRule("r2", "high", "deny", 10, TRUE, TRUE),
      StoredRule("r3", "disabled", "deny", 5, FALSE, TRUE)},
     {StoredRule("r2", "high", "deny", 10, TRUE, TRUE),
      StoredRule("r4", "mid", "review", 5, TRUE, TRUE)}}

\* The service starts with an empty cache whose timestamp 0 is the epoch,
\* long past.
InitCache ==
    /\ InitIn({Environment(2500, FALSE, MLFailure, RulesFailure, "none", FALSE)})
    /\ NoPolicyCall

\* An administrator changes rules_v2.
EditRules(table) ==
    /\ table # rules_v2
    /\ rules_v2' = table
    /\ UNCHANGED <<pc, existing, cas, sequential, orch, resp, idem, events,
                   decisions, sca_challenges, velocity, app_state, rules_call, recorded,
                   decision_events, case_events, audit_logs, now, env, last_sql,
                   polIn, polOut>>

\* Time passes in the rules service.
CacheClock ==
    /\ now + CacheTick <= MaxTicks * CacheTick
    /\ now' = now + CacheTick
    /\ UNCHANGED <<pc, existing, cas, sequential, orch, resp, idem, events,
                   decisions, sca_challenges, velocity, rules_v2, app_state, rules_call, recorded,
                   decision_events, case_events, audit_logs, env, last_sql,
                   polIn, polOut>>

\* The clock reading of the rules service: the service starts more than a
\* TTL after the epoch.
cache_time == RULES_CACHE_TTL + 1 + now

\* await get_rules()
GetRules(db_ok) ==
    /\ LET expired == cache_expired(app_state, cache_time)
           load == load_rules_from_db(app_state, rules_v2, cache_time, db_ok)
       IN  IF expired
           THEN /\ app_state' = load.app_state
                /\ rules_call' = [op |-> "get_rules", db_ok |-> db_ok,
                                  loaded |-> TRUE, returned |-> load.returned]
           ELSE /\ app_state' = app_state
                /\ rules_call' = [op |-> "get_rules", db_ok |-> TRUE,
                                  loaded |-> FALSE,
                                  returned |-> app_state.rules_cache]
    /\ UNCHANGED <<pc, existing, cas, sequential, orch, resp, idem, events,
                   decisions, sca_challenges, velocity, rules_v2, recorded,
                   decision_events, case_events, audit_logs, now, env, last_sql,
                   polIn, polOut>>

\* POST /rules/reload, and the load of the service's start.
ReloadRules(db_ok) ==
    /\ LET load == load_rules_from_db(app_state, rules_v2, cache_time, db_ok)
       IN  /\ app_state' = load.app_state
           /\ rules_call' = [op |-> "reload", db_ok |-> db_ok,
                             loaded |-> TRUE, returned |-> load.returned]
    /\ UNCHANGED <<pc, existing, cas, sequential, orch, resp, idem, events,
                   decisions, sca_challenges, velocity, rules_v2, recorded,
                   decision_events, case_events, audit_logs, now, env, last_sql,
                   polIn, polOut>>

NextCache ==
    \/ \E table \in RuleTables : EditRules(table)
    \/ CacheClock
    \/ \E ok \in BOOLEAN : GetRules(ok)
    \/ \E ok \in BOOLEAN : ReloadRules(ok)

SpecCache == InitCache /\ [][NextCache]_vars

\* C24: the cache changes only in a load that succeeds; a load that fails
\* leaves the cache and its timestamp as they were and returns the cached
\* rules, those of the last successful load; get_rules goes to the database
\* only when the cache is older than RULES_CACHE_TTL, and otherwise returns
\* the cached rules.
C24_RulesCacheFailStatic ==
    [][LET call == rules_call'
           is_call == rules_call' # rules_call \/ app_state' # app_state
       IN  /\ app_state' # app_state =>
                 /\ call.loaded /\ call.db_ok
                 /\ app_state'.rules_cache = fetch_rules(rules_v2)
                 /\ call.returned = app_state'.rules_cache
           /\ is_call /\ call.loaded /\ ~call.db_ok =>
                 /\ app_state' = app_state
                 /\ call.returned = app_state.rules_cache
           /\ is_call /\ call.loaded =>
                 \/ call.op = "reload"
                 \/ cache_time - app_state.cache_timestamp > RULES_CACHE_TTL
           /\ is_call /\ call.op = "get_rules" /\ ~call.loaded =>
                 /\ cache_time - app_state.cache_timestamp <= RULES_CACHE_TTL
                 /\ call.returned = app_state.rules_cache]_vars

\* C24 witness: the cache holds two rules, the table has since been changed,
\* the cache is older than the TTL, and a get_rules whose load failed
\* returned the two cached rules.
C24_Witness ==
    /\ rules_call.op = "get_rules"
    /\ rules_call.loaded /\ ~rules_call.db_ok
    /\ Len(rules_call.returned) = 2
    /\ rules_call.returned = app_state.rules_cache
    /\ fetch_rules(rules_v2) # app_state.rules_cache
    /\ cache_time - app_state.cache_timestamp > RULES_CACHE_TTL

(***************************************************************************)
(* Velocity tracker on its own                                             *)
(***************************************************************************)
MaxRecords == 3

\* The instants (in clock ticks) at which the tracker is called: the start,
\* half a second, half an hour, one hour, 20, 24 and 25 hours later.
VelocityTimes ==
    {0, 5, 10 * 1800, 10 * WINDOW_1H, 10 * 72000, 10 * WINDOW_24H, 10 * 90000}

VelocityAmounts == {2500, 1000}

\* The last call of the tracker: its arguments, the sorted sets it found and
\* what it returned.
NoVelocityCall ==
    [op |-> "none", time |-> 0, amount |-> 0, ok |-> FALSE,
     zsets |-> NoVelocity, data |-> ZeroVelocity]

InitVelocity ==
    /\ InitIn({Environment(2500, FALSE, MLFailure, RulesFailure, "none", FALSE)})
    /\ polIn = NoPolicyInput
    /\ polOut = NoVelocityCall

\* Time passes until the next call.
VelocityClock(t) ==
    /\ t > now
    /\ now' = t
    /\ UNCHANGED <<pc, existing, cas, sequential, orch, resp, idem, events,
                   decisions, sca_challenges, velocity, rules_v2, app_state,
                   rules_call, recorded, decision_events, case_events, audit_logs,
                   env, last_sql, polIn, polOut>>

\* await velocity_tracker.record_transaction(user_id, amount)
RecordTransaction(amount, redis_ok) ==
    /\ Len(recorded) < MaxRecords
    /\ LET call == record_transaction(velocity, amount, unix_time(now), redis_ok)
       IN  /\ velocity' = call.zsets
           /\ recorded' = IF redis_ok
                          THEN Append(recorded, [time |-> unix_time(now),
                                                 amount |-> amount])
                          ELSE recorded
           /\ polOut' = [op |-> "record", time |-> unix_time(now), amount |-> amount,
                         ok |-> redis_ok, zsets |-> velocity, data |-> call.data]
    /\ UNCHANGED <<pc, existing, cas, sequential, orch, resp, idem, events,
                   decisions, sca_challenges, rules_v2, app_state, rules_call,
                   decision_events, case_events, audit_logs, now, env, last_sql,
                   polIn>>

\* await velocity_tracker.get_velocity(user_id)
GetVelocity(redis_ok) ==
    /\ LET call == get_velocity(velocity, unix_time(now), redis_ok)
       IN  /\ velocity' = call.zsets
           /\ polOut' = [op |-> "get", time |-> unix_time(now), amount |-> 0,
                         ok |-> redis_ok, zsets |-> velocity, data |-> call.data]
    /\ UNCHANGED <<pc, existing, cas, sequential, orch, resp, idem, events,
                   decisions, sca_challenges, rules_v2, app_state, rules_call,
                   recorded, decision_events, case_events, audit_logs, now, env,
                   last_sql, polIn>>

NextVelocity ==
    \/ \E t \in VelocityTimes : VelocityClock(t)
    \/ \E amount \in VelocityAmounts, ok \in BOOLEAN : RecordTransaction(amount, ok)
    \/ \E ok \in BOOLEAN : GetVelocity(ok)

SpecVelocity == InitVelocity /\ [][NextVelocity]_vars

\* The completed record_transaction calls with a timestamp in
\* (time - window, time].
CallsInWindow(time, window) ==
    {i \in 1..Len(recorded) :
        recorded[i].time > time - window /\ recorded[i].time <= time}

\* C25: what a completed record_transaction returns as velocity_1h and
\* velocity_24h is the number of completed calls with a timestamp in the
\* window, itself included, calls at one timestamp counting one each.
C25_CountsEveryCallInWindow ==
    polOut.op = "record" /\ polOut.ok =>
        /\ polOut.data.velocity_1h =
              Cardinality(CallsInWindow(polOut.time, WINDOW_1H))
        /\ polOut.data.velocity_24h =
              Cardinality(CallsInWindow(polOut.time, WINDOW_24H))

\* The triple the sorted sets hold at a time, counting the entries inside
\* each window.
WindowTriple(zsets, time) ==
    LET z == live(zsets, time)
    IN  [velocity_1h |-> Cardinality({t \in z.h1 : t > time - WINDOW_1H}),
         velocity_24h |-> Cardinality({t \in z.h24 : t > time - WINDOW_24H}),
         amount_sum_24h |->
            amount_sum({e \in z.amount_24h : e[1] > time - WINDOW_24H})]

\* C26: a completed record_transaction whose member token is already in the
\* sets leaves the 1h count, the 24h count and the 24h amount sum as they
\* were before it, that is as they were after the first call with the token.
C26_SameTokenIsNoOp ==
    polOut.op = "record" /\ polOut.ok
    /\ polOut.time \in live(polOut.zsets, polOut.time).h24 =>
        polOut.data = WindowTriple(polOut.zsets, polOut.time)

\* C27: what a completed get_velocity returns is the triple the sets hold
\* at that time, counting only the entries inside each window.
C27_GetReturnsWindowTriple ==
    polOut.op = "get" /\ polOut.ok =>
        polOut.data = WindowTriple(polOut.zsets, polOut.time)

(***************************************************************************)
(* determine_sca_level as a pure function                                  *)
(***************************************************************************)
\* Risk scores (hundredths) on both sides of every row boundary.
ScaScores == {0, 15, 29, 30, 31, 49, 50, 60, 69, 70, 85, 89, 90, 100}

\* Amounts (cents) a validated request can carry (amount > 0), on both sides
\* of 30.00 and of 10000.00.
ScaAmounts == {1, 2500, 2999, 3000, 3001, 500000, 1000000, 1000001}

NoScaLevel == [called |-> FALSE, level |-> "NONE"]

InitSca ==
    /\ InitIn({Environment(2500, FALSE, MLFailure, RulesFailure, "none", FALSE)})
    /\ polIn \in [risk_score : ScaScores, amount : ScaAmounts]
    /\ polOut = NoScaLevel

\* One call of determine_sca_level.
DetermineScaLevel ==
    /\ ~polOut.called
    /\ polOut' = [called |-> TRUE,
                  level |-> determine_sca_level(polIn.risk_score, polIn.amount)]
    /\ UNCHANGED <<pc, existing, cas, sequential, orch, resp, idem, events,
                   decisions, sca_challenges, velocity, rules_v2, app_state,
                   rules_call, recorded, decision_events, case_events,
                   audit_logs, now, env, last_sql, polIn>>

NextSca == DetermineScaLevel

SpecSca == InitSca /\ [][NextSca]_vars

\* The first-match-wins table of SCA levels.
ScaTable(score, amount) ==
    CASE amount < 3000 -> "NONE"
      [] amount >= 3000 /\ amount > 1000000 -> "HARDWARE_TOKEN"
      [] amount >= 3000 /\ amount <= 1000000 /\ score < 30 -> "NONE"
      [] amount >= 3000 /\ amount <= 1000000 /\ 30 <= score /\ score < 50 ->
            "OTP_SMS"
      [] amount >= 3000 /\ amount <= 1000000 /\ 50 <= score /\ score < 70 ->
            "BIOMETRIC"
      [] amount >= 3000 /\ amount <= 1000000 /\ 70 <= score /\ score < 90 ->
            "PUSH_NOTIFICATION"
      [] amount >= 3000 /\ amount <= 1000000 /\ score >= 90 -> "HARDWARE_TOKEN"

\* The level the score rows alone give.
ScoreRow(score) ==
    IF score < 30 THEN "NONE"
    ELSE IF score < 50 THEN "OTP_SMS"
    ELSE IF score < 70 THEN "BIOMETRIC"
    ELSE IF score < 90 THEN "PUSH_NOTIFICATION"
    ELSE "HARDWARE_TOKEN"

PendingChallengesOf(r) ==
    {c \in sca_challenges :
        c.transaction_id = resp[r].event_id /\ c.status = "PENDING"}

\* C29: whenever a scored request is answered with requires_2fa = true, an
\* SCA challenge row with status PENDING exists for its transaction, and the
\* response carries it as sca_challenge.
C29_Requires2faCreatesAndReturnsChallenge ==
    \A r \in Scored :
        resp[r].requires_2fa =>
            /\ PendingChallengesOf(r) # {}
            /\ "sca_challenge" \in DOMAIN resp[r]

(***************************************************************************)
(* Scenario: medium risk, 25.00 EUR                                        *)
(***************************************************************************)
\* Request r was orchestrated on amount 25.00 with ML score 0.60 and a rules
\* answer without hits.
MediumRiskScenario(r) ==
    /\ Orchestrated(r)
    /\ ScoreRequest.amount = 2500
    /\ orch[r].result.score = 60
    /\ orch[r].rules.ok
    /\ orch[r].rules.data.matched_rules = <<>>
    /\ orch[r].rules.data.list_matches = <<>>
    /\ ~orch[r].rules.data.should_deny

\* The outcome of the scenario with the SCA challenge type given.
ScenarioOutcome(r, challenge_type) ==
    IF ScoreRequest.has_initial_2fa
    THEN /\ orch[r].result.decision = "ALLOW"
         /\ (pc[r] = "done" => resp[r].decision = "ALLOW")
    ELSE /\ orch[r].result.decision = "CHALLENGE"
         /\ orch[r].result.requires_2fa
         /\ (pc[r] = "done" =>
                resp[r].decision = "CHALLENGE" /\ resp[r].requires_2fa)
         /\ orch[r].result.sca_challenge = challenge_type
         /\ \E c \in sca_challenges :
                /\ c.transaction_id = ScoreRequest.event_id
                /\ c.challenge_type = challenge_type
                /\ c.status = "PENDING"

C32_ReplayHasNoSideEffects ==
    \A r \in Requests :
        cas[r] = "hit" =>
            /\ pc[r] \in {"get_decision", "done"}
            /\ ~Orchestrated(r)
            /\ get_decision(new_decision_id(r)) = {}
            /\ DecisionEventsOf(r) = {}
            /\ CaseEventsOf(r) = {}

(***************************************************************************)
(* Independence of the ML call and the rules call                          *)
(***************************************************************************)
\* The rule names of the rules answer received for r.
RuleNamesOf(r) ==
    [i \in 1..Len(orch[r].rules.data.matched_rules) |->
        orch[r].rules.data.matched_rules[i].rule_name]

\* C33: when the ML call of a request failed and its rules call answered,
\* the answer's rule hits are kept and a critical answer is decided DENY,
\* otherwise CHALLENGE on the missing score; when its rules call failed and
\* the ML call answered, the hits are empty, the score is kept and the
\* decision is the one the score alone gives.
C33_CallsAreIndependent ==
    \A r \in Requests :
        Orchestrated(r) =>
            LET result == orch[r].result
            IN  /\ (~orch[r].ml.ok /\ orch[r].rules.ok) =>
                      /\ result.score = NoScore
                      /\ result.rule_hits = RuleNamesOf(r)
                      /\ result.decision =
                            IF orch[r].rules.data.should_deny
                            THEN "DENY" ELSE "CHALLENGE"
                /\ (orch[r].ml.ok /\ ~orch[r].rules.ok) =>
                      /\ result.score = orch[r].ml.score
                      /\ result.rule_hits = <<>>
                      /\ <<result.decision, result.requires_2fa>> =
                            PolicyTable(orch[r].ml.score, FALSE,
                                        ScoreRequest.has_initial_2fa)

\* C33 witness: the ML call of a request failed, its rules call answered
\* with a matched deny rule, and the request was answered DENY with the hits.
C33_Witness ==
    \E r \in Done :
        /\ ~orch[r].ml.ok
        /\ DenyRuleMatched(r)
        /\ resp[r].decision = "DENY"
        /\ resp[r].rule_hits # <<>>
        /\ resp[r].decision_id = new_decision_id(r)

(***************************************************************************)
(* Rule evaluation cut by the timeout                                      *)
(***************************************************************************)
\* C34: when the timeout check stops the loop before the last rule, the
\* matched list is a prefix of the list a full evaluation returns, holds no
\* rule that comes after the cut-off in priority order, and holds every
\* enabled matching rule before the cut-off.
C34_TimeoutReturnsPrefix ==
    (polOut.called /\ polIn.looped < Len(polIn.rules)) =>
        LET order == sorted_rules(polIn.rules)
            full == evaluate_rules(polIn.rules, Len(polIn.rules))
            n == Len(polOut.matched)
        IN  /\ n <= Len(full)
            /\ polOut.matched = SubSeq(full, 1, n)
            /\ \A i \in 1..n :
                  \E k \in 1..polIn.looped :
                      order[k].id = polOut.matched[i].rule_id
            /\ \A k \in 1..polIn.looped :
                  order[k].enabled /\ order[k].matches =>
                      \E i \in 1..n : polOut.matched[i].rule_id = order[k].id

\* C34 witness: three rules loaded lowest priority first, the loop cut after
\* two of them: the two highest matched, the third was not reached.
C34_Witness ==
    /\ polOut.called
    /\ polIn.looped = 2
    /\ Len(polIn.rules) = 3
    /\ polIn.rules[1].id = "r1" /\ polIn.rules[2].id = "r4" /\ polIn.rules[3].id = "r2"
    /\ Len(polOut.matched) = 2
    /\ polOut.matched[1].rule_id = "r2"
    /\ polOut.matched[2].rule_id = "r4"

(***************************************************************************)
(* Rules service: the rule DSL                                             *)
(***************************************************************************)
\* A value of the context or of a literal: None, a number, a string or a
\* boolean.
Value(kind, num, str) == [kind |-> kind, num |-> num, str |-> str]

Null == Value("null", 0, "")

\* The strings in use, in Python's order of str.
StringOrder == <<"7", "FR", "US", "geo", "user_home_geo">>

\* float(s): the number of a numeric string, None when it raises ValueError.
float(s) == IF s = "7" THEN Value("num", 7, "") ELSE Null

\* x > y, x == y, ... on two numbers or two strings.
apply_op(op, a, b) ==
    LET rank(s) == CHOOSE i \in 1..Len(StringOrder) : StringOrder[i] = s
        x == IF a.kind = "str" THEN rank(a.str) ELSE a.num
        y == IF b.kind = "str" THEN rank(b.str) ELSE b.num
    IN  CASE op = ">" -> x > y
          [] op = "<" -> x < y
          [] op = ">=" -> x >= y
          [] op = "<=" -> x <= y
          [] op = "==" -> x = y
          [] op = "!=" -> x # y

\* _safe_compare: every operator is a lambda, so op.__name__ is '<lambda>',
\* and str(op) is the repr of a function, which holds no '==': with a None
\* operand every operator returns a != b.
_safe_compare(a, b, op) ==
    IF a = Null \/ b = Null
    THEN a # b
    ELSE IF a.kind = "num" /\ b.kind = "str"
         THEN float(b.str) # Null /\ apply_op(op, a, float(b.str))
    ELSE IF b.kind = "num" /\ a.kind = "str"
         THEN float(a.str) # Null /\ apply_op(op, float(a.str), b)
    ELSE apply_op(op, a, b)

\* The fields a context may hold; a field it does not hold reads as None.
FieldNames == {"a", "b", "c", "geo", "user_home_geo"}

\* context.get(field)
_get_field_value(context, field) ==
    IF field \in DOMAIN context THEN context[field] ELSE Null

\* _parse_value: null, a quoted string or a number; any other text is
\* returned as the string it is.
_parse_value(value_str) ==
    CASE value_str \in {"null", "none", "None"} -> Null
      [] value_str = "'FR'" -> Value("str", 0, "FR")
      [] value_str = "7" -> Value("num", 7, "")
      [] OTHER -> Value("str", 0, value_str)

\* The right operand of a comparison: the field's value when it has one,
\* else the text parsed as a literal.
right_value(context, right) ==
    IF _get_field_value(context, right) # Null
    THEN _get_field_value(context, right)
    ELSE _parse_value(right)

\* str.upper() of a word of an expression.
upper(word) ==
    CASE word \in {"or", "Or", "OR"} -> "OR"
      [] word \in {"and", "And", "AND"} -> "AND"
      [] word \in {"not", "Not", "NOT"} -> "NOT"
      [] OTHER -> word

\* bool(value)
bool(value) ==
    CASE value.kind = "null" -> FALSE
      [] value.kind = "bool" -> value.num = 1
      [] value.kind = "num" -> value.num # 0
      [] value.kind = "str" -> value.str # ""

RECURSIVE split(_, _)
\* re.split(r'\s+KEYWORD\s+', expression, flags=re.IGNORECASE): an
\* expression is the sequence of its words.
split(expression, keyword) ==
    LET at == {i \in 1..Len(expression) : upper(expression[i]) = keyword}
    IN  IF at = {} THEN <<expression>>
        ELSE LET i == CHOOSE k \in at : \A j \in at : k <= j
             IN  <<SubSeq(expression, 1, i - 1)>>
                 \o split(SubSeq(expression, i + 1, Len(expression)), keyword)

Comparators == {">=", "<=", "==", "!=", ">", "<"}

RECURSIVE _evaluate_simple_expression(_, _)
\* NOT, then a comparison, then a boolean field.
_evaluate_simple_expression(expr, context) ==
    IF Len(expr) > 1 /\ upper(expr[1]) = "NOT"
    THEN ~_evaluate_simple_expression(Tail(expr), context)
    ELSE IF Len(expr) = 3 /\ expr[2] \in Comparators
    THEN _safe_compare(_get_field_value(context, expr[1]),
                       right_value(context, expr[3]), expr[2])
    ELSE Len(expr) = 1 /\ bool(_get_field_value(context, expr[1]))

RECURSIVE evaluate_and_before_or(_, _)
\* evaluate that splits on AND before it splits on OR.
evaluate_and_before_or(expression, context) ==
    IF expression = <<>> THEN FALSE
    ELSE IF \E i \in 1..Len(expression) : upper(expression[i]) = "AND"
    THEN LET parts == split(expression, "AND")
         IN  \A i \in 1..Len(parts) : evaluate_and_before_or(parts[i], context)
    ELSE IF \E i \in 1..Len(expression) : upper(expression[i]) = "OR"
    THEN LET parts == split(expression, "OR")
         IN  \E i \in 1..Len(parts) : evaluate_and_before_or(parts[i], context)
    ELSE _evaluate_simple_expression(expression, context)

RECURSIVE evaluate(_, _)
\* RuleDSLEvaluator.evaluate: OR is split first, then AND, then the simple
\* expression is evaluated.
evaluate(expression, context) ==
    IF expression = <<>> THEN FALSE
    ELSE IF \E i \in 1..Len(expression) : upper(expression[i]) = "OR"
    THEN LET parts == split(expression, "OR")
         IN  \E i \in 1..Len(parts) : evaluate(parts[i], context)
    ELSE IF \E i \in 1..Len(expression) : upper(expression[i]) = "AND"
    THEN LET parts == split(expression, "AND")
         IN  \A i \in 1..Len(parts) : evaluate(parts[i], context)
    ELSE _evaluate_simple_expression(expression, context)

\* The three expressions of the precedence rules, in every spelling of the
\* keywords, and comparisons of geo with user_home_geo and with literals.
DslExpressions ==
    {<<"a", o, "b", n, "c">> : o \in {"OR", "or", "Or"}, n \in {"AND", "and", "And"}}
    \cup {<<"a", n, "b", o, "c">> : o \in {"OR", "or", "Or"}, n \in {"AND", "and", "And"}}
    \cup {<<t, "a", n, "b">> : t \in {"NOT", "not", "Not"}, n \in {"AND", "and", "And"}}
    \cup {<<"geo", op, right>> : op \in {"==", "!="},
                                right \in {"user_home_geo", "'FR'", "null"}}

BooleanValues == {Value("bool", 0, ""), Value("bool", 1, "")}

\* Contexts of the boolean fields a, b, c, and contexts that hold or lack
\* geo and user_home_geo.
DslContexts ==
    {[f \in {"a", "b", "c"} |-> v[f]] : v \in [{"a", "b", "c"} -> BooleanValues]}
    \cup {[f \in {"geo", "user_home_geo"} |-> v[f]] :
            v \in [{"geo", "user_home_geo"} ->
                      {Null, Value("str", 0, "FR"), Value("str", 0, "US")}]}
    \cup {[f \in {"geo"} |-> v] : v \in {Null, Value("str", 0, "user_home_geo")}}

\* The operands given to _safe_compare.
CompareValues ==
    {Null, Value("num", 5, ""), Value("num", 7, ""),
     Value("str", 0, "FR"), Value("str", 0, "7")}

NoDslResult ==
    [called |-> FALSE, result |-> FALSE, left_value |-> Null, right_value |-> Null]

\* One call of evaluate on an expression and a context, or one call of
\* _safe_compare on two operands.
InitDsl ==
    /\ InitIn({Environment(2500, FALSE, MLFailure, RulesFailure, "none", FALSE)})
    /\ polIn \in
          [call : {"evaluate"}, expression : DslExpressions, context : DslContexts,
           a : {Null}, b : {Null}, op : {"=="}]
          \cup
          [call : {"_safe_compare"}, expression : {<<>>}, context : {<<>>},
           a : CompareValues, b : CompareValues, op : Comparators]
    /\ polOut = NoDslResult

\* evaluate(expression, context); the operands of a comparison are kept.
Evaluate ==
    /\ polIn.call = "evaluate"
    /\ ~polOut.called
    /\ LET expr == polIn.expression
           compares == Len(expr) = 3 /\ expr[2] \in Comparators
       IN  polOut' =
              [called |-> TRUE,
               result |-> evaluate(expr, polIn.context),
               left_value |-> IF compares
                              THEN _get_field_value(polIn.context, expr[1])
                              ELSE Null,
               right_value |-> IF compares
                               THEN right_value(polIn.context, expr[3])
                               ELSE Null]
    /\ UNCHANGED <<pc, existing, cas, sequential, orch, resp, idem, events,
                   decisions, sca_challenges, velocity, rules_v2, app_state,
                   rules_call, recorded, decision_events, case_events,
                   audit_logs, now, env, last_sql, polIn>>

\* self.operators[op](a, b)
SafeCompare ==
    /\ polIn.call = "_safe_compare"
    /\ ~polOut.called
    /\ polOut' = [called |-> TRUE,
                  result |-> _safe_compare(polIn.a, polIn.b, polIn.op),
                  left_value |-> polIn.a,
                  right_value |-> polIn.b]
    /\ UNCHANGED <<pc, existing, cas, sequential, orch, resp, idem, events,
                   decisions, sca_challenges, velocity, rules_v2, app_state,
                   rules_call, recorded, decision_events, case_events,
                   audit_logs, now, env, last_sql, polIn>>

NextDsl == Evaluate \/ SafeCompare

SpecDsl == InitDsl /\ [][NextDsl]_vars

\* The truth value of a boolean field of the context given.
Truth(field) ==
    field \in DOMAIN polIn.context /\ polIn.context[field] = Value("bool", 1, "")

\* C35: "a OR b AND c" evaluates to a OR (b AND c), "a AND b OR c" to
\* (a AND b) OR c and "NOT a AND b" to (NOT a) AND b, for all truth values of
\* a, b, c and every spelling of the keywords in upper, lower or mixed case.
C35_DslPrecedence ==
    (polOut.called /\ polIn.call = "evaluate") =>
        LET expr == polIn.expression
        IN  /\ (Len(expr) = 5 /\ upper(expr[2]) = "OR" /\ upper(expr[4]) = "AND") =>
                  (polOut.result <=> (Truth("a") \/ (Truth("b") /\ Truth("c"))))
            /\ (Len(expr) = 5 /\ upper(expr[2]) = "AND" /\ upper(expr[4]) = "OR") =>
                  (polOut.result <=> ((Truth("a") /\ Truth("b")) \/ Truth("c")))
            /\ (Len(expr) = 4 /\ upper(expr[1]) = "NOT" /\ upper(expr[3]) = "AND") =>
                  (polOut.result <=> (~Truth("a") /\ Truth("b")))

\* C35 witness: "a or b And c" with a true and b, c false evaluates to true.
C35_Witness ==
    /\ polOut.called
    /\ polIn.expression = <<"a", "or", "b", "And", "c">>
    /\ Truth("a") /\ ~Truth("b") /\ ~Truth("c")
    /\ "c" \in DOMAIN polIn.context
    /\ polOut.result

\* C36: a comparison with a null operand is true for "==" iff both operands
\* are null, true for "!=" iff exactly one is null, and false for ">", "<",
\* ">=" and "<=".
C36_NullComparisons ==
    (polOut.called /\ polIn.call = "_safe_compare"
     /\ (polIn.a = Null \/ polIn.b = Null)) =>
        CASE polIn.op = "==" -> (polOut.result <=> (polIn.a = Null /\ polIn.b = Null))
          [] polIn.op = "!=" -> (polOut.result <=> ~(polIn.a = Null /\ polIn.b = Null))
          [] OTHER -> ~polOut.result

\* C37: in an evaluated comparison, a bare identifier that the context does
\* not hold resolves to null on the left and on the right.
C37_AbsentIdentifierIsNull ==
    (polOut.called /\ polIn.call = "evaluate" /\ Len(polIn.expression) = 3) =>
        LET left == polIn.expression[1]
            right == polIn.expression[3]
        IN  /\ (left \in FieldNames
                /\ _get_field_value(polIn.context, left) = Null) =>
                  polOut.left_value = Null
            /\ (right \in FieldNames
                /\ _get_field_value(polIn.context, right) = Null) =>
                  polOut.right_value = Null

(***************************************************************************)
(* requires_2fa of the responses                                           *)
(***************************************************************************)
\* C38: every 200 response of POST /v1/score, the replayed ones included,
\* has requires_2fa = true if and only if its decision is CHALLENGE.
C38_Requires2faIffChallenge ==
    \A r \in Done :
        resp[r].status = 200 =>
            (resp[r].requires_2fa <=> resp[r].decision = "CHALLENGE")

(***************************************************************************)
(* The idempotency record and the decision row                             *)
(***************************************************************************)
\* C39: whenever the idempotency record of the fingerprint holds a decision
\* id and no request is in flight, a decision row with that id exists.
C39_RecordPointsAtDecisionRow ==
    (idem # NoDecision /\ \A r \in Requests : pc[r] \in {"idle", "done"}) =>
        get_decision(idem) # {}

(***************************************************************************)
(* SCA challenge lifecycle                                                 *)
(***************************************************************************)
MaxChallenges == 2
MaxCompletions == 3

ChallengeIds == 1..MaxChallenges

\* What the callers of complete_sca_challenge have seen: the last call with
\* the row's status before and after it, and per challenge the number of
\* calls on its row that returned, the number that returned true and the status the
\* successful one wrote.
NoCompletion ==
    [n |-> 0, challenge_id |-> 0, success |-> FALSE, before |-> "MISSING",
     returned |-> "none", after |-> "MISSING",
     attempts |-> [c \in ChallengeIds |-> 0],
     succeeded |-> [c \in ChallengeIds |-> 0],
     written |-> [c \in ChallengeIds |-> "PENDING"]]

\* The status of the row of a challenge id, MISSING when there is none.
status_of(rows, challenge_id) ==
    IF \E c \in rows : c.challenge_id = challenge_id
    THEN (CHOOSE c \in rows : c.challenge_id = challenge_id).status
    ELSE "MISSING"

InitScaLifecycle ==
    /\ InitIn({Environment(2500, FALSE, MLFailure, RulesFailure, "none", FALSE)})
    /\ polIn = [user_id |-> "user_1", transaction_id |-> EVENT_ID]
    /\ polOut = NoCompletion

\* create_sca_challenge: INSERT INTO sca_challenges ... RETURNING
\* challenge_id (an INSERT that raises leaves no row and changes nothing).
CreateScaChallenge(risk_score, amount) ==
    /\ Cardinality(sca_challenges) < MaxChallenges
    /\ sca_challenges' =
          sca_challenges \cup
          {[challenge_id |-> Cardinality(sca_challenges) + 1,
            user_id |-> polIn.user_id,
            transaction_id |-> polIn.transaction_id,
            risk_score |-> risk_score,
            challenge_type |-> determine_sca_level(risk_score, amount),
            status |-> "PENDING"]}
    /\ UNCHANGED <<pc, existing, cas, sequential, orch, resp, idem, events,
                   decisions, velocity, rules_v2, app_state, rules_call,
                   recorded, decision_events, case_events, audit_logs, now,
                   env, last_sql, polIn, polOut>>

\* complete_sca_challenge whose UPDATE does not test the status.
CompleteScaChallengeAnyStatus(challenge_id, success, db_ok) ==
    /\ polOut.n < MaxCompletions
    /\ LET before == status_of(sca_challenges, challenge_id)
           status == IF success THEN "COMPLETED" ELSE "FAILED"
           updated == db_ok /\ before # "MISSING"
       IN  /\ sca_challenges' =
                 IF updated
                 THEN {IF c.challenge_id = challenge_id
                       THEN [c EXCEPT !.status = status] ELSE c :
                       c \in sca_challenges}
                 ELSE sca_challenges
           /\ polOut' =
                 [n |-> polOut.n + 1,
                  challenge_id |-> challenge_id,
                  success |-> success,
                  before |-> before,
                  returned |-> IF ~db_ok THEN "raised"
                               ELSE IF updated THEN "true" ELSE "false",
                  after |-> status_of(sca_challenges', challenge_id),
                  attempts |-> IF db_ok /\ before # "MISSING"
                               THEN [polOut.attempts EXCEPT ![challenge_id] = @ + 1]
                               ELSE polOut.attempts,
                  succeeded |-> IF updated
                                THEN [polOut.succeeded EXCEPT ![challenge_id] = @ + 1]
                                ELSE polOut.succeeded,
                  written |-> IF updated
                              THEN [polOut.written EXCEPT ![challenge_id] = status]
                              ELSE polOut.written]
    /\ UNCHANGED <<pc, existing, cas, sequential, orch, resp, idem, events,
                   decisions, velocity, rules_v2, app_state, rules_call,
                   recorded, decision_events, case_events, audit_logs, now,
                   env, last_sql, polIn>>

\* complete_sca_challenge: one UPDATE ... WHERE challenge_id = $2 AND
\* status = 'PENDING', true when it reports "UPDATE 1"; db_ok = FALSE: the
\* statement raises and the caller gets the exception.
CompleteScaChallenge(challenge_id, success, db_ok) ==
    /\ polOut.n < MaxCompletions
    /\ LET before == status_of(sca_challenges, challenge_id)
           status == IF success THEN "COMPLETED" ELSE "FAILED"
           updated == db_ok /\ before = "PENDING"
       IN  /\ sca_challenges' =
                 IF updated
                 THEN {IF c.challenge_id = challenge_id
                       THEN [c EXCEPT !.status = status] ELSE c :
                       c \in sca_challenges}
                 ELSE sca_challenges
           /\ polOut' =
                 [n |-> polOut.n + 1,
                  challenge_id |-> challenge_id,
                  success |-> success,
                  before |-> before,
                  returned |-> IF ~db_ok THEN "raised"
                               ELSE IF updated THEN "true" ELSE "false",
                  after |-> status_of(sca_challenges', challenge_id),
                  attempts |-> IF db_ok /\ before # "MISSING"
                               THEN [polOut.attempts EXCEPT ![challenge_id] = @ + 1]
                               ELSE polOut.attempts,
                  succeeded |-> IF updated
                                THEN [polOut.succeeded EXCEPT ![challenge_id] = @ + 1]
                                ELSE polOut.succeeded,
                  written |-> IF updated
                              THEN [polOut.written EXCEPT ![challenge_id] = status]
                              ELSE polOut.written]
    /\ UNCHANGED <<pc, existing, cas, sequential, orch, resp, idem, events,
                   decisions, velocity, rules_v2, app_state, rules_call,
                   recorded, decision_events, case_events, audit_logs, now,
                   env, last_sql, polIn>>

NextScaLifecycle ==
    \/ \E risk_score \in {60, 85}, amount \in {2500, 500000} :
          CreateScaChallenge(risk_score, amount)
    \/ \E challenge_id \in ChallengeIds, success \in BOOLEAN, db_ok \in BOOLEAN :
          CompleteScaChallenge(challenge_id, success, db_ok)

SpecScaLifecycle == InitScaLifecycle /\ [][NextScaLifecycle]_vars

\* C40: a challenge row is PENDING until a completion succeeds on it; a
\* completion returns true exactly when the row was PENDING and then leaves
\* it COMPLETED or FAILED as asked; it returns false on a row that is not
\* PENDING and leaves the row as it was; a row that left PENDING keeps the
\* status its one successful completion wrote, and of the completions of one
\* challenge exactly one returned true.
C40_ScaLifecycle ==
    /\ \A c \in sca_challenges :
          /\ c.status \in {"PENDING", "COMPLETED", "FAILED"}
          /\ (c.status = "PENDING" <=> polOut.succeeded[c.challenge_id] = 0)
          /\ (c.status # "PENDING" => c.status = polOut.written[c.challenge_id])
          /\ polOut.succeeded[c.challenge_id] <= 1
          /\ (polOut.attempts[c.challenge_id] >= 1 =>
                 polOut.succeeded[c.challenge_id] = 1)
    /\ (polOut.n > 0 /\ polOut.returned # "raised") =>
          /\ (polOut.returned = "true" <=> polOut.before = "PENDING")
          /\ (polOut.returned = "true" =>
                 polOut.after = IF polOut.success THEN "COMPLETED" ELSE "FAILED")
          /\ (polOut.returned = "false" => polOut.after = polOut.before)

\* C40 witness: a challenge was failed by one completion, and a second
\* completion of the same challenge, asking for COMPLETED, returned false and
\* left it FAILED.
C40_Witness ==
    /\ polOut.n >= 2
    /\ polOut.attempts[polOut.challenge_id] = 2
    /\ polOut.succeeded[polOut.challenge_id] = 1
    /\ polOut.success
    /\ polOut.returned = "false"
    /\ polOut.before = "FAILED"
    /\ polOut.after = "FAILED"

====
